---- MODULE Spec2Model ----
(***************************************************************************)
(* A model of the trace2receiver stream server: the POSIX Unix-socket      *)
(* receiver (Shutdown, the accept loop, the inode sentinel), the Windows   *)
(* named-pipe receiver (Shutdown, the listen loop, the acceptor pool), the *)
(* per-connection worker with its cancellation watcher, and the Trace2     *)
(* dataset: the events that build it, its threads, regions, children and   *)
(* execs, the ids that come from the SID, the summary accumulator, its     *)
(* finalization and the filter decision whether it is exported.            *)
(***************************************************************************)
EXTENDS Integers, Sequences, FiniteSets, TLC

\* ---------------------------------------------------------------- bounds
MaxWorkers == 1        \* connections accepted over the receiver's lifetime
MaxShutdownCalls == 2  \* calls of Shutdown() made by the host
AcceptPoolSize == 2    \* acceptor tasks of the named-pipe listen loop
MaxNesting == 2        \* nesting levels of region events are 1..MaxNesting
MaxSpans == 3          \* span ids drawn by NewSpanID() for one dataset
MaxEvents == 3         \* lines read by a worker whose lines are logged
MaxSidLen == 5         \* characters of a raw SID
MaxReplay == 5         \* events of a stream that is applied to two datasets
MaxCallers == 4        \* tasks that call makeDatasetId()

Workers == 1..MaxWorkers
Acceptors == 1..AcceptPoolSize

\* ------------------------------------------------------- program constants
NoInode == 0           \* rcvr.inode == 0: "we do not own the path"
OurInode == 1          \* inode of the socket created by ListenUnix
ForeignInode == 2      \* inode of a file another process put at the path
DoneReadingCap == 1    \* make(chan bool, 1) in worker
DoneListeningCap == 1  \* make(chan bool, 1) in listenLoop

FSDetailLevelDropName == "dl:drop"
FSDetailLevelSummaryName == "dl:summary"
FSDetailLevelProcessName == "dl:process"
FSDetailLevelVerboseName == "dl:verbose"
FSDetailLevelDefaultName == FSDetailLevelSummaryName

FSDetailLevelNames ==
  {FSDetailLevelDropName, FSDetailLevelSummaryName, FSDetailLevelProcessName, FSDetailLevelVerboseName}

\* --------------------------------------------------------------- helpers
\* A Go map is a function on the set of its keys.
EmptyMap == <<>>

HasKey(m, k) == k \in DOMAIN m

MapPut(m, k, v) == [x \in (DOMAIN m) \cup {k} |-> IF x = k THEN v ELSE m[x]]

\* ------------------------------------------------------- filter settings
\* An argv element is a path: directory, stem and extension of its last
\* component (filepath.Base and filepath.Ext work on the last component).
ArgvGit == [dir |-> "", stem |-> "git", ext |-> ""]
ArgvGitExe == [dir |-> "C:/git/", stem |-> "git", ext |-> ".exe"]

RulesetKeyName == "otel.trace2.ruleset"
NicknameKeyName == "otel.trace2.nickname"

\* The filter settings of the receiver's configuration (read once).
TheFilterSettings ==
  [ RulesetKey |-> RulesetKeyName,
    NicknameKey |-> NicknameKeyName,
    NicknameMap |-> ("monorepo" :> "rs:status"),
    DefaultsRulesetName |-> "",
    rulesetDefs |-> ("rs:status" :>
        [ CmdMap |-> ("git:status" :> FSDetailLevelDropName),
          DefaultsDetailLevelName |-> FSDetailLevelVerboseName ]) ]

\* rcvr.RcvrConfig.filterSettings: set when the receiver is created and
\* read, never written, by the workers.
VARIABLE filterSettings

lookupRulesetNameByRulesetKey(fs, params) ==
  IF fs.RulesetKey = "" THEN [name |-> "", ok |-> FALSE]
  ELSE IF ~HasKey(params, fs.RulesetKey) \/ params[fs.RulesetKey] = ""
       THEN [name |-> "", ok |-> FALSE]
       ELSE [name |-> params[fs.RulesetKey], ok |-> TRUE]

lookupRulesetNameByNickname(fs, params) ==
  IF fs.NicknameKey = "" THEN [name |-> "", ok |-> FALSE]
  ELSE IF ~HasKey(params, fs.NicknameKey) \/ params[fs.NicknameKey] = ""
       THEN [name |-> "", ok |-> FALSE]
       ELSE LET nnvalue == params[fs.NicknameKey] IN
            IF ~HasKey(fs.NicknameMap, nnvalue) \/ fs.NicknameMap[nnvalue] = ""
            THEN [name |-> "", ok |-> FALSE]
            ELSE [name |-> fs.NicknameMap[nnvalue], ok |-> TRUE]

lookupDefaultRulesetName(fs) ==
  IF fs.DefaultsRulesetName = "" THEN [name |-> "", ok |-> FALSE]
  ELSE [name |-> fs.DefaultsRulesetName, ok |-> TRUE]

\* Mutant: the nickname is looked at before the ruleset key.
lookupRulesetName_NicknameFirst(fs, params) ==
  LET byNick == lookupRulesetNameByNickname(fs, params) IN
  IF byNick.ok THEN byNick
  ELSE LET byKey == lookupRulesetNameByRulesetKey(fs, params) IN
       IF byKey.ok THEN byKey ELSE lookupDefaultRulesetName(fs)

lookupRulesetName(fs, params) ==
  LET byKey == lookupRulesetNameByRulesetKey(fs, params) IN
  IF byKey.ok THEN byKey
  ELSE LET byNick == lookupRulesetNameByNickname(fs, params) IN
       IF byNick.ok THEN byNick ELSE lookupDefaultRulesetName(fs)

\* Mutant: the shortest name is looked up first.
lookupCommandDetailLevelName_ExeFirst(rsdef, qn) ==
  IF HasKey(rsdef.CmdMap, qn.exe)
  THEN [name |-> rsdef.CmdMap[qn.exe], ok |-> TRUE]
  ELSE IF HasKey(rsdef.CmdMap, qn.exeVerb)
  THEN [name |-> rsdef.CmdMap[qn.exeVerb], ok |-> TRUE]
  ELSE IF HasKey(rsdef.CmdMap, qn.exeVerbMode)
  THEN [name |-> rsdef.CmdMap[qn.exeVerbMode], ok |-> TRUE]
  ELSE [name |-> "", ok |-> FALSE]

lookupCommandDetailLevelName(rsdef, qn) ==
  IF HasKey(rsdef.CmdMap, qn.exeVerbMode)
  THEN [name |-> rsdef.CmdMap[qn.exeVerbMode], ok |-> TRUE]
  ELSE IF HasKey(rsdef.CmdMap, qn.exeVerb)
  THEN [name |-> rsdef.CmdMap[qn.exeVerb], ok |-> TRUE]
  ELSE IF HasKey(rsdef.CmdMap, qn.exe)
  THEN [name |-> rsdef.CmdMap[qn.exe], ok |-> TRUE]
  ELSE [name |-> "", ok |-> FALSE]

\* Mutant: the command table of the default ruleset is consulted also when
\* the initial name is a detail level.
computeDetailLevel_CommandsOverride(fs, params, qn) ==
  LET r == lookupRulesetName(fs, params)
      viaDefault == HasKey(fs.rulesetDefs, fs.DefaultsRulesetName)
      name == IF r.ok /\ r.name \in FSDetailLevelNames /\ viaDefault
              THEN fs.DefaultsRulesetName ELSE r.name IN
  IF ~r.ok THEN FSDetailLevelDefaultName
  ELSE IF name \in FSDetailLevelNames THEN name
  ELSE IF ~HasKey(fs.rulesetDefs, name) THEN FSDetailLevelDefaultName
  ELSE LET rsdef == fs.rulesetDefs[name]
           c == lookupCommandDetailLevelName(rsdef, qn) IN
       IF ~c.ok THEN
          IF r.name \in FSDetailLevelNames THEN r.name
          ELSE IF rsdef.DefaultsDetailLevelName \in FSDetailLevelNames
          THEN rsdef.DefaultsDetailLevelName ELSE "dl:unset"
       ELSE IF c.name \in FSDetailLevelNames THEN c.name
       ELSE FSDetailLevelDefaultName

\* Mutant: a name that is no ruleset of the filter settings falls back to
\* the default ruleset name of the filter settings.
computeDetailLevel_InvalidUsesDefault(fs, params, qn) ==
  LET r == lookupRulesetName(fs, params) IN
  IF ~r.ok THEN FSDetailLevelDefaultName
  ELSE IF r.name \in FSDetailLevelNames THEN r.name
  ELSE IF ~HasKey(fs.rulesetDefs, r.name)
  THEN IF fs.DefaultsRulesetName \in FSDetailLevelNames
       THEN fs.DefaultsRulesetName ELSE FSDetailLevelDefaultName
  ELSE LET rsdef == fs.rulesetDefs[r.name]
           c == lookupCommandDetailLevelName(rsdef, qn) IN
       IF ~c.ok THEN
          IF rsdef.DefaultsDetailLevelName \in FSDetailLevelNames
          THEN rsdef.DefaultsDetailLevelName ELSE "dl:unset"
       ELSE IF c.name \in FSDetailLevelNames THEN c.name
       ELSE FSDetailLevelDefaultName

\* The detail level is represented by its name; getDetailLevel fails on
\* every other name.
computeDetailLevel(fs, params, qn) ==
  LET r == lookupRulesetName(fs, params) IN
  IF ~r.ok THEN FSDetailLevelDefaultName
  ELSE IF r.name \in FSDetailLevelNames THEN r.name
  ELSE IF ~HasKey(fs.rulesetDefs, r.name) THEN FSDetailLevelDefaultName
  ELSE LET rsdef == fs.rulesetDefs[r.name]
           c == lookupCommandDetailLevelName(rsdef, qn) IN
       IF ~c.ok THEN
          IF rsdef.DefaultsDetailLevelName \in FSDetailLevelNames
          THEN rsdef.DefaultsDetailLevelName ELSE "dl:unset"
       ELSE IF c.name \in FSDetailLevelNames THEN c.name
       ELSE FSDetailLevelDefaultName


\* The debug string that computeDetailLevel returns with the detail level,
\* as the sequence of the pairs <<lval, rval>> that debugDescribe appends.
computeDetailLevelDebug(fs, params, qn) ==
  LET byKey == lookupRulesetNameByRulesetKey(fs, params)
      byNick == lookupRulesetNameByNickname(fs, params)
      r == lookupRulesetName(fs, params)
      nnvalue == IF fs.NicknameKey # "" /\ HasKey(params, fs.NicknameKey)
                 THEN params[fs.NicknameKey] ELSE ""
      keyPart == IF byKey.ok THEN << <<"rskey", byKey.name>> >> ELSE <<>>
      nickPart == IF byKey.ok \/ nnvalue = "" THEN <<>>
                  ELSE << <<"nickname", nnvalue>>,
                          <<nnvalue, IF byNick.ok THEN byNick.name ELSE "UNKNOWN">> >>
      defPart == IF ~byKey.ok /\ ~byNick.ok /\ r.ok
                 THEN << <<"default-ruleset", r.name>> >> ELSE <<>>
      debug == keyPart \o nickPart \o defPart
      builtin == <<"builtin-default", FSDetailLevelDefaultName>> IN
  IF ~r.ok THEN Append(debug, builtin)
  ELSE IF r.name \in FSDetailLevelNames THEN debug
  ELSE IF ~HasKey(fs.rulesetDefs, r.name)
  THEN debug \o << <<r.name, "INVALID">>, builtin >>
  ELSE LET rsdef == fs.rulesetDefs[r.name]
           c == lookupCommandDetailLevelName(rsdef, qn)
           command == Append(debug, <<"command", qn.exeVerbMode>>)
           hit == IF HasKey(rsdef.CmdMap, qn.exeVerbMode) THEN qn.exeVerbMode
                  ELSE IF HasKey(rsdef.CmdMap, qn.exeVerb) THEN qn.exeVerb
                  ELSE qn.exe IN
       IF ~c.ok THEN Append(command, <<"ruleset-default", rsdef.DefaultsDetailLevelName>>)
       ELSE IF c.name \in FSDetailLevelNames THEN Append(command, <<hit, c.name>>)
       ELSE command \o << <<hit, c.name>>, <<"BACKSTOP", FSDetailLevelDefaultName>> >>

\* ---------------------------------------------------------------- summary
\* A message is the sequence of its words; strings.HasPrefix on sequences.
HasPrefix(s, prefix) ==
  Len(prefix) <= Len(s) /\ SubSeq(s, 1, Len(prefix)) = prefix

\* RcvrConfig.summary: one message pattern; a region timer with a count and
\* a time field, and one with a time field only.
TheSummarySettings ==
  [ MessagePatterns |-> << [Prefix |-> <<"error:">>, FieldName |-> "error_count"] >>,
    RegionTimers |->
      << [Category |-> "index", Label |-> "refresh",
          CountField |-> "refresh_count", TimeField |-> "refresh_time"],
         [Category |-> "pack", Label |-> "objects",
          CountField |-> "", TimeField |-> "pack_time"] >> ]

newSummaryAccumulator ==
  [messageCounts |-> EmptyMap, regionCounts |-> EmptyMap, regionTimes |-> EmptyMap]

\* Every configured field starts at zero.
configuredSummary(settings) ==
  LET mp == settings.MessagePatterns
      rt == settings.RegionTimers IN
  [ messageCounts |-> [f \in {mp[i].FieldName : i \in DOMAIN mp} |-> 0],
    regionCounts |->
      [f \in {rt[i].CountField : i \in {j \in DOMAIN rt : rt[j].CountField # ""}} |-> 0],
    regionTimes |->
      [f \in {rt[i].TimeField : i \in {j \in DOMAIN rt : rt[j].TimeField # ""}} |-> 0] ]

\* tr2.process.summary of a new dataset: the accumulator with every field
\* that the configuration names at zero.
processSummary == configuredSummary(TheSummarySettings)

\* m[k]++ and m[k] += d of a Go map: a missing key reads as zero.
MapAdd(m, k, d) == MapPut(m, k, (IF HasKey(m, k) THEN m[k] ELSE 0) + d)

incrementMessageCount(csa, fieldName) ==
  [csa EXCEPT !.messageCounts = MapAdd(@, fieldName, 1)]

addRegionMetrics(csa, countField, timeField, duration) ==
  LET c == IF countField # "" THEN [csa EXCEPT !.regionCounts = MapAdd(@, countField, 1)]
           ELSE csa IN
  IF timeField # "" THEN [c EXCEPT !.regionTimes = MapAdd(@, timeField, duration)]
  ELSE c

\* The map that is emitted: the fields whose value is greater than zero.
toMap(csa) ==
  LET mc == {f \in DOMAIN csa.messageCounts : csa.messageCounts[f] > 0}
      rc == {f \in DOMAIN csa.regionCounts : csa.regionCounts[f] > 0}
      rt == {f \in DOMAIN csa.regionTimes : csa.regionTimes[f] > 0} IN
  [f \in mc \cup rc \cup rt |->
     IF f \in mc THEN csa.messageCounts[f]
     ELSE IF f \in rc THEN csa.regionCounts[f]
     ELSE csa.regionTimes[f]]

\* The loop over css.MessagePatterns, from rule i on.
RECURSIVE summaryMessageFrom(_, _, _, _)
summaryMessageFrom(csa, rules, i, message) ==
  IF i > Len(rules) THEN csa
  ELSE summaryMessageFrom(
         IF HasPrefix(message, rules[i].Prefix)
         THEN incrementMessageCount(csa, rules[i].FieldName) ELSE csa,
         rules, i + 1, message)

apply__summary_message(ds, message) ==
  [ds EXCEPT !.summary = summaryMessageFrom(@, TheSummarySettings.MessagePatterns, 1, message)]

\* The loop over css.RegionTimers, from rule i on.
RECURSIVE summaryRegionFrom(_, _, _, _)
summaryRegionFrom(csa, rules, i, region) ==
  IF i > Len(rules) THEN csa
  ELSE summaryRegionFrom(
         IF region.category = rules[i].Category /\ region.label = rules[i].Label
         THEN addRegionMetrics(csa, rules[i].CountField, rules[i].TimeField,
                               region.endTime - region.startTime)
         ELSE csa,
         rules, i + 1, region)

\* The duration is endTime.Sub(startTime) in the time unit of the model.
apply__summary_region(ds, region) ==
  [ds EXCEPT !.summary = summaryRegionFrom(@, TheSummarySettings.RegionTimers, 1, region)]


\* ---------------------------------------------------------------- dataset
EventTime == 1         \* evt.mf_time of the events of the model
NowTime == 2           \* time.Now() in prepareDataset
LateTime == 3          \* evt.mf_time of an event stamped after the receiver's clock

ZeroSpanID == 0        \* zeroSpanID: the span id no span has
ZeroTraceID == 0       \* the otelTraceID of a new dataset: sixteen zero bytes

\* ----------------------------------------------------------------- the SID
\* A raw SID is a sequence of characters; a component is a sequence of
\* characters other than "/".
SidChars == {"a", "b", "/"}

\* strings.Split(rawSid, "/"): the text before the first separator, between
\* separators and after the last one; the empty string has one (empty)
\* component.
RECURSIVE SplitFrom(_, _, _)
SplitFrom(s, done, cur) ==
  IF s = <<>> THEN Append(done, cur)
  ELSE IF Head(s) = "/" THEN SplitFrom(Tail(s), Append(done, cur), <<>>)
  ELSE SplitFrom(Tail(s), done, Append(cur, Head(s)))

Split(rawSid) == SplitFrom(rawSid, <<>>, <<>>)

\* A number for each component: two components have the same number only
\* if they are equal.
RECURSIVE ComponentCode(_)
ComponentCode(c) ==
  IF c = <<>> THEN 0
  ELSE (IF Head(c) = "a" THEN 1 ELSE 2) + 3 * ComponentCode(Tail(c))

\* sha256.Sum256 of a component, as the two slices of it that are read:
\* bytes 0..15 and bytes 16..23.  Different components are taken to differ
\* in both slices, and no slice is taken to be all zero.
Sha256(c) == [bytes0to16 |-> 1 + ComponentCode(c), bytes16to24 |-> 1 + ComponentCode(c)]

\* Mutant: the parent span id is taken from the first component.
extractIDsfromSID_ParentFromFirst(rawSid) ==
  LET sidArray == Split(rawSid)
      hash_0 == Sha256(sidArray[1]) IN
  IF Len(sidArray) = 1
  THEN [tid |-> hash_0.bytes0to16, spid |-> hash_0.bytes16to24, spidParent |-> ZeroSpanID]
  ELSE [tid |-> hash_0.bytes0to16,
        spid |-> Sha256(sidArray[Len(sidArray)]).bytes16to24,
        spidParent |-> hash_0.bytes16to24]

\* Go indexes sidArray from 0, the model from 1.
extractIDsfromSID(rawSid) ==
  LET sidArray == Split(rawSid)
      hash_0 == Sha256(sidArray[1]) IN
  IF Len(sidArray) = 1
  THEN [tid |-> hash_0.bytes0to16, spid |-> hash_0.bytes16to24, spidParent |-> ZeroSpanID]
  ELSE [tid |-> hash_0.bytes0to16,
        spid |-> Sha256(sidArray[Len(sidArray)]).bytes16to24,
        spidParent |-> Sha256(sidArray[Len(sidArray) - 1]).bytes16to24]

\* The first id that NewSpanID() hands out lies above every id that comes
\* from a SID.
FirstRandomSpanID == 3 ^ (MaxSidLen + 1)

NewTrace2Dataset ==
  [ sawData |-> FALSE,
    cmdArgv |-> <<>>,
    cmdVerb |-> "",
    cmdMode |-> "",
    otelTraceID |-> ZeroTraceID,
    trace2SID |-> <<>>,
    mainSelfSpanID |-> ZeroSpanID,
    mainParentSpanID |-> ZeroSpanID,
    mainStartTime |-> 0,
    mainEndTime |-> 0,
    mainRegionStack |-> <<>>,
    exeExitCode |-> 0,
    dataValues |-> EmptyMap,
    threads |-> EmptyMap,
    children |-> EmptyMap,
    exec |-> EmptyMap,
    completedRegions |-> <<>>,
    rngSeed |-> 0,
    nrSpanIDs |-> 0,
    paramSetValues |-> EmptyMap,
    paramSetPriorities |-> EmptyMap,
    exeErrorFmt |-> <<>>,
    exeErrorMsg |-> <<>>,
    summary |-> processSummary,
    qualifiedNames |-> [exe |-> "", exeVerb |-> "", exeVerbMode |-> ""] ]

get_scope_priority(scope) ==
  CASE scope = "nil" -> 100
    [] scope = "system" -> 1
    [] scope = "global" -> 2
    [] scope = "local" -> 3
    [] scope = "worktree" -> 4
    [] scope = "command" -> 5
    [] scope = "submodule" -> 6
    [] scope = "unknown" -> 7
    [] OTHER -> 99

IsFSMonitorDaemon(verb) == verb = "fsmonitor--daemon"

apply__start(ds, evt) == [tr2 |-> [ds EXCEPT !.cmdArgv = evt.argv], err |-> "nil"]

apply__atexit(ds, evt) ==
  [tr2 |-> [ds EXCEPT !.mainEndTime = evt.time, !.exeExitCode = evt.code], err |-> "nil"]

\* Mutant: the fsmonitor daemon is not rejected.
apply__cmd_name_NoReject(ds, evt) ==
  [tr2 |-> [ds EXCEPT !.cmdVerb = evt.name], err |-> "nil"]

apply__cmd_name(ds, evt) ==
  IF IsFSMonitorDaemon(evt.name)
  THEN [tr2 |-> ds, err |-> "reject"]
  ELSE [tr2 |-> [ds EXCEPT !.cmdVerb = evt.name], err |-> "nil"]

apply__cmd_mode(ds, evt) == [tr2 |-> [ds EXCEPT !.cmdMode = evt.name], err |-> "nil"]

\* Mutant: of two events of the same priority the earlier one is kept.
apply__def_param_FirstWins(ds, evt) ==
  LET key == evt.param
      priNew == get_scope_priority(evt.scope)
      havePrevVal == HasKey(ds.paramSetValues, key)
      havePrevPri == HasKey(ds.paramSetPriorities, key) IN
  IF havePrevVal /\ havePrevPri /\ priNew <= ds.paramSetPriorities[key]
  THEN [tr2 |-> ds, err |-> "nil"]
  ELSE [tr2 |-> [ds EXCEPT !.paramSetValues = MapPut(@, key, evt.value),
                           !.paramSetPriorities = MapPut(@, key, priNew)],
        err |-> "nil"]

apply__def_param(ds, evt) ==
  LET key == evt.param
      priNew == get_scope_priority(evt.scope)
      havePrevVal == HasKey(ds.paramSetValues, key)
      havePrevPri == HasKey(ds.paramSetPriorities, key) IN
  IF havePrevVal /\ havePrevPri /\ priNew < ds.paramSetPriorities[key]
  THEN [tr2 |-> ds, err |-> "nil"]
  ELSE [tr2 |-> [ds EXCEPT !.paramSetValues = MapPut(@, key, evt.value),
                           !.paramSetPriorities = MapPut(@, key, priNew)],
        err |-> "nil"]

\* A later error event is kept out by the test len(exeErrorFmt) == 0.
apply__error(ds, evt) ==
  LET first == IF Len(ds.exeErrorFmt) = 0
               THEN [ds EXCEPT !.exeErrorFmt = evt.fmt, !.exeErrorMsg = evt.msg]
               ELSE ds IN
  [tr2 |-> apply__summary_message(first, evt.msg), err |-> "nil"]

apply__printf(ds, evt) ==
  [tr2 |-> apply__summary_message(ds, evt.msg), err |-> "nil"]

\* ------------------------------------------------------ threads and regions
NewThread(self, parent, start) ==
  [ selfSpanID |-> self, parentSpanID |-> parent,
    startTime |-> start, endTime |-> 0, regionStack |-> <<>> ]

\* The id that NewSpanID() returns: the random ids of one dataset are taken
\* to be distinct from each other and from the ids derived from the SID.
\* The ids of a dataset follow from the seed of its random source.
NewSpanID(ds) == FirstRandomSpanID + ds.rngSeed + ds.nrSpanIDs

\* &tr2.process.mainThread as a thread record.
mainThread(ds) ==
  [ selfSpanID |-> ds.mainSelfSpanID, parentSpanID |-> ds.mainParentSpanID,
    startTime |-> ds.mainStartTime, endTime |-> ds.mainEndTime,
    regionStack |-> ds.mainRegionStack ]

lookupThread(ds, name) ==
  IF name = "main" THEN [ok |-> TRUE, th |-> mainThread(ds)]
  ELSE IF HasKey(ds.threads, name) THEN [ok |-> TRUE, th |-> ds.threads[name]]
  ELSE [ok |-> FALSE, th |-> NewThread(ZeroSpanID, ZeroSpanID, 0)]

\* lookupThread returns a pointer: a write through it to the region stack
\* lands in the main thread or in the entry of the threads map.
setRegionStack(ds, name, stack) ==
  IF name = "main" THEN [ds EXCEPT !.mainRegionStack = stack]
  ELSE [ds EXCEPT !.threads[name].regionStack = stack]

lookupTopParentSpanID(th) ==
  IF Len(th.regionStack) = 0 THEN th.selfSpanID
  ELSE th.regionStack[Len(th.regionStack)].selfSpanID

\* The state that popRegionStack works on is the thread's region stack and
\* tr2.completedRegions.
popRegionStack(st, t) ==
  LET rs == Len(st.stack)
      r == [st.stack[rs] EXCEPT !.endTime = t] IN
  [ stack |-> SubSeq(st.stack, 1, rs - 1),
    completed |-> Append(st.completed, r) ]

RECURSIVE popAllRegionStack(_, _)
popAllRegionStack(st, t) ==
  IF Len(st.stack) = 0 THEN st
  ELSE popAllRegionStack(popRegionStack(st, t), t)

apply__version(ds, evt) ==
  LET ids == extractIDsfromSID(evt.sid) IN
  [tr2 |-> [ds EXCEPT !.trace2SID = evt.sid,
                      !.mainStartTime = evt.time,
                      !.otelTraceID = ids.tid,
                      !.mainSelfSpanID = ids.spid,
                      !.mainParentSpanID = ids.spidParent],
   err |-> "nil"]

apply__thread_start(ds, evt) ==
  IF HasKey(ds.threads, evt.thread) THEN [tr2 |-> ds, err |-> "nil"]
  ELSE LET th == NewThread(NewSpanID(ds), ds.mainSelfSpanID, evt.time) IN
       [tr2 |-> [ds EXCEPT !.threads = MapPut(@, evt.thread, th),
                           !.nrSpanIDs = @ + 1],
        err |-> "nil"]

\* Mutant: the thread is closed and its open regions are left on its stack.
apply__thread_exit_KeepsRegions(ds, evt) ==
  IF ~HasKey(ds.threads, evt.thread) THEN [tr2 |-> ds, err |-> "nil"]
  ELSE [tr2 |-> [ds EXCEPT !.threads[evt.thread].endTime = evt.time], err |-> "nil"]

apply__thread_exit(ds, evt) ==
  IF ~HasKey(ds.threads, evt.thread) THEN [tr2 |-> ds, err |-> "nil"]
  ELSE LET th == ds.threads[evt.thread]
           st == popAllRegionStack([stack |-> th.regionStack,
                                    completed |-> ds.completedRegions], evt.time) IN
       [tr2 |-> [ds EXCEPT !.completedRegions = st.completed,
                           !.threads[evt.thread].regionStack = st.stack,
                           !.threads[evt.thread].endTime = evt.time],
        err |-> "nil"]

\* Mutant: a region is pushed whatever nesting level the event carries.
apply__region_enter_AnyNesting(ds, evt) ==
  LET l == lookupThread(ds, evt.thread) IN
  IF ~l.ok THEN [tr2 |-> ds, err |-> "nil"]
  ELSE LET r == [ selfSpanID |-> NewSpanID(ds),
                  parentSpanID |-> lookupTopParentSpanID(l.th),
                  startTime |-> evt.time, endTime |-> 0,
                  nestingLevel |-> evt.nesting,
                  category |-> evt.category, label |-> evt.label,
                  dataValues |-> EmptyMap,
                  thread |-> evt.thread ] IN
       [tr2 |-> [setRegionStack(ds, evt.thread, Append(l.th.regionStack, r))
                   EXCEPT !.nrSpanIDs = @ + 1],
        err |-> "nil"]

\* A region record carries, besides the fields of TrRegion, the name of the
\* thread on whose stack it was pushed (a history field: the code keeps no
\* such field, the stack that holds the region tells it).
apply__region_enter(ds, evt) ==
  LET l == lookupThread(ds, evt.thread) IN
  IF ~l.ok THEN [tr2 |-> ds, err |-> "nil"]
  ELSE IF Len(l.th.regionStack) # evt.nesting - 1 THEN [tr2 |-> ds, err |-> "nil"]
  ELSE LET r == [ selfSpanID |-> NewSpanID(ds),
                  parentSpanID |-> lookupTopParentSpanID(l.th),
                  startTime |-> evt.time, endTime |-> 0,
                  nestingLevel |-> evt.nesting,
                  category |-> evt.category, label |-> evt.label,
                  dataValues |-> EmptyMap,
                  thread |-> evt.thread ] IN
       [tr2 |-> [setRegionStack(ds, evt.thread, Append(l.th.regionStack, r))
                   EXCEPT !.nrSpanIDs = @ + 1],
        err |-> "nil"]

\* Mutant: the region on top of the stack is closed whatever nesting level
\* the event carries.
apply__region_leave_AnyNesting(ds, evt) ==
  LET l == lookupThread(ds, evt.thread)
      rCount == Len(l.th.regionStack) IN
  IF ~l.ok THEN [tr2 |-> ds, err |-> "nil"]
  ELSE IF rCount = 0 THEN [tr2 |-> ds, err |-> "nil"]
  ELSE LET r == [l.th.regionStack[rCount] EXCEPT !.endTime = evt.time] IN
       [tr2 |-> [apply__summary_region(
                   setRegionStack(ds, evt.thread, SubSeq(l.th.regionStack, 1, rCount - 1)), r)
                   EXCEPT !.completedRegions = Append(@, r)],
        err |-> "nil"]

\* Mutant: the region that is closed is put at the head of the completed
\* list.
apply__region_leave_Prepends(ds, evt) ==
  LET l == lookupThread(ds, evt.thread)
      rCount == Len(l.th.regionStack) IN
  IF ~l.ok THEN [tr2 |-> ds, err |-> "nil"]
  ELSE IF rCount = 0 THEN [tr2 |-> ds, err |-> "nil"]
  ELSE IF l.th.regionStack[rCount].nestingLevel # evt.nesting
  THEN [tr2 |-> ds, err |-> "nil"]
  ELSE LET r == [l.th.regionStack[rCount] EXCEPT !.endTime = evt.time] IN
       [tr2 |-> [apply__summary_region(
                   setRegionStack(ds, evt.thread, SubSeq(l.th.regionStack, 1, rCount - 1)), r)
                   EXCEPT !.completedRegions = <<r>> \o @],
        err |-> "nil"]

apply__region_leave(ds, evt) ==
  LET l == lookupThread(ds, evt.thread)
      rCount == Len(l.th.regionStack) IN
  IF ~l.ok THEN [tr2 |-> ds, err |-> "nil"]
  ELSE IF rCount = 0 THEN [tr2 |-> ds, err |-> "nil"]
  ELSE IF l.th.regionStack[rCount].nestingLevel # evt.nesting
  THEN [tr2 |-> ds, err |-> "nil"]
  ELSE LET r == [l.th.regionStack[rCount] EXCEPT !.endTime = evt.time] IN
       [tr2 |-> [apply__summary_region(
                   setRegionStack(ds, evt.thread, SubSeq(l.th.regionStack, 1, rCount - 1)), r)
                   EXCEPT !.completedRegions = Append(@, r)],
        err |-> "nil"]

\* ------------------------------------------------------- children and exec
\* Mutant: a child_start for a child-id that is present replaces the record.
apply__child_start_Replaces(ds, evt) ==
  LET child == [ selfSpanID |-> NewSpanID(ds),
                 parentSpanID |-> ds.mainSelfSpanID,
                 startTime |-> evt.time, endTime |-> 0,
                 pid |-> -1, exitcode |-> -1 ] IN
  [tr2 |-> [ds EXCEPT !.children = MapPut(@, evt.child_id, child),
                      !.nrSpanIDs = @ + 1],
   err |-> "nil"]

apply__child_start(ds, evt) ==
  IF HasKey(ds.children, evt.child_id) THEN [tr2 |-> ds, err |-> "nil"]
  ELSE LET child == [ selfSpanID |-> NewSpanID(ds),
                      parentSpanID |-> ds.mainSelfSpanID,
                      startTime |-> evt.time, endTime |-> 0,
                      pid |-> -1, exitcode |-> -1 ] IN
       [tr2 |-> [ds EXCEPT !.children = MapPut(@, evt.child_id, child),
                           !.nrSpanIDs = @ + 1],
        err |-> "nil"]

apply__child_exit(ds, evt) ==
  IF ~HasKey(ds.children, evt.child_id) THEN [tr2 |-> ds, err |-> "nil"]
  ELSE [tr2 |-> [ds EXCEPT !.children[evt.child_id].endTime = evt.time,
                           !.children[evt.child_id].pid = evt.pid,
                           !.children[evt.child_id].exitcode = evt.code],
        err |-> "nil"]

apply__exec(ds, evt) ==
  IF HasKey(ds.exec, evt.exec_id) THEN [tr2 |-> ds, err |-> "nil"]
  ELSE LET exec == [ selfSpanID |-> NewSpanID(ds),
                     parentSpanID |-> ds.mainSelfSpanID,
                     startTime |-> evt.time, endTime |-> 0,
                     exitcode |-> -1 ] IN
       [tr2 |-> [ds EXCEPT !.exec = MapPut(@, evt.exec_id, exec),
                           !.nrSpanIDs = @ + 1],
        err |-> "nil"]

apply__exec_result(ds, evt) ==
  IF ~HasKey(ds.exec, evt.exec_id) THEN [tr2 |-> ds, err |-> "nil"]
  ELSE [tr2 |-> [ds EXCEPT !.exec[evt.exec_id].endTime = evt.time,
                           !.exec[evt.exec_id].exitcode = evt.code],
        err |-> "nil"]

\* -------------------------------------------------------------- data events
\* The index expression th.regionStack[rWant] is evaluated after the test
\* len(th.regionStack) < rWant: with exactly rWant open regions the index is
\* out of range and the Go runtime panics (err "panic"; nothing recovers
\* it).  Go indexes from 0, the sequences of the model from 1.
apply__data_generic(ds, evt) ==
  IF evt.nesting <= 1
  THEN [tr2 |-> [ds EXCEPT !.dataValues = MapPut(@, evt.key, evt.value)], err |-> "nil"]
  ELSE LET l == lookupThread(ds, evt.thread)
           rWant == evt.nesting - 2 IN
       IF ~l.ok THEN [tr2 |-> ds, err |-> "nil"]
       ELSE IF Len(l.th.regionStack) < rWant THEN [tr2 |-> ds, err |-> "nil"]
       ELSE IF rWant + 1 > Len(l.th.regionStack) THEN [tr2 |-> ds, err |-> "panic"]
       ELSE LET r == l.th.regionStack[rWant + 1] IN
            IF r.nestingLevel # evt.nesting - 1 THEN [tr2 |-> ds, err |-> "nil"]
            ELSE [tr2 |-> setRegionStack(ds, evt.thread,
                            [l.th.regionStack EXCEPT ![rWant + 1].dataValues =
                                 MapPut(@, evt.key, evt.value)]),
                  err |-> "nil"]

\* The events of the apply map that the model's lines carry; an event name
\* that is not in the map is ignored.
evt_apply(ds, evt) ==
  CASE evt.event = "start" -> apply__start(ds, evt)
    [] evt.event \in {"exit", "atexit"} -> apply__atexit(ds, evt)
    [] evt.event = "cmd_name" -> apply__cmd_name(ds, evt)
    [] evt.event = "cmd_mode" -> apply__cmd_mode(ds, evt)
    [] evt.event = "def_param" -> apply__def_param(ds, evt)
    [] evt.event = "version" -> apply__version(ds, evt)
    [] evt.event = "thread_start" -> apply__thread_start(ds, evt)
    [] evt.event = "thread_exit" -> apply__thread_exit(ds, evt)
    [] evt.event = "region_enter" -> apply__region_enter(ds, evt)
    [] evt.event = "region_leave" -> apply__region_leave(ds, evt)
    [] evt.event = "child_start" -> apply__child_start(ds, evt)
    [] evt.event = "child_exit" -> apply__child_exit(ds, evt)
    [] evt.event = "exec" -> apply__exec(ds, evt)
    [] evt.event = "exec_result" -> apply__exec_result(ds, evt)
    [] evt.event \in {"data", "data_json"} -> apply__data_generic(ds, evt)
    [] evt.event = "error" -> apply__error(ds, evt)
    [] evt.event = "printf" -> apply__printf(ds, evt)
    [] OTHER -> [tr2 |-> ds, err |-> "nil"]

\* A raw line is blank (or a comment), malformed JSON, or a well-formed
\* JSON event.  evt_parse returns (nil, nil), (nil, err) or (evt, nil); isNil tells
\* whether the event returned is nil.
evt_parse(rawLine) ==
  CASE rawLine.kind = "blank" -> [isNil |-> TRUE, evt |-> rawLine, err |-> "nil"]
    [] rawLine.kind = "garbage" -> [isNil |-> TRUE, evt |-> rawLine, err |-> "parse"]
    [] OTHER -> [isNil |-> FALSE, evt |-> rawLine, err |-> "nil"]

\* Result: the dataset, the error returned ("nil" when none) and the
\* number of lines logged at error level.
processRawLine(rawLine, ds) ==
  LET p == evt_parse(rawLine) IN
  IF p.err # "nil" THEN [tr2 |-> ds, err |-> p.err, errorLogs |-> 1]
  ELSE IF p.isNil THEN [tr2 |-> ds, err |-> "nil", errorLogs |-> 0]
  ELSE LET saw == [ds EXCEPT !.sawData = TRUE]
           a == evt_apply(saw, p.evt) IN
       IF a.err = "nil" THEN [tr2 |-> a.tr2, err |-> "nil", errorLogs |-> 0]
       ELSE IF a.err = "reject" THEN [tr2 |-> a.tr2, err |-> "reject", errorLogs |-> 0]
       ELSE IF a.err = "panic" THEN [tr2 |-> a.tr2, err |-> "panic", errorLogs |-> 0]
       ELSE [tr2 |-> a.tr2, err |-> a.err, errorLogs |-> 1]

setQualifiedExeName(ds) ==
  LET argv_0 == ds.cmdArgv[1]
      exeName == IF argv_0.ext \in {".exe", ".EXE"} THEN argv_0.stem
                 ELSE argv_0.stem \o argv_0.ext IN
  [ds EXCEPT !.qualifiedNames.exe = exeName]

setQualifiedExeVerbName(ds) ==
  LET exe == ds.qualifiedNames.exe IN
  IF ds.cmdVerb = "" THEN [ds EXCEPT !.qualifiedNames.exeVerb = exe]
  ELSE IF ds.cmdVerb = "_run_dashed_"
  THEN IF Len(ds.cmdArgv) > 1
       THEN [ds EXCEPT !.qualifiedNames.exeVerb =
                 exe \o ":" \o ds.cmdArgv[2].stem \o ds.cmdArgv[2].ext]
       ELSE [ds EXCEPT !.qualifiedNames.exeVerb = exe \o ":" \o "_run_dashed_"]
  ELSE [ds EXCEPT !.qualifiedNames.exeVerb = exe \o ":" \o ds.cmdVerb]

setQualifiedExeVerbModeName(ds) ==
  IF ds.cmdMode = ""
  THEN [ds EXCEPT !.qualifiedNames.exeVerbMode = ds.qualifiedNames.exeVerb]
  ELSE [ds EXCEPT !.qualifiedNames.exeVerbMode =
            ds.qualifiedNames.exeVerb \o "#" \o ds.cmdMode]

isIncomplete(endTime) == endTime = 0

\* The loop over tr2.children of prepareDataset.
closeChildren(children, now) ==
  [id \in DOMAIN children |->
     IF isIncomplete(children[id].endTime)
     THEN [children[id] EXCEPT !.endTime = now, !.pid = -1, !.exitcode = -1]
     ELSE children[id]]

\* The loop over tr2.threads of prepareDataset, over the threads that are
\* still to be visited.  Go visits the entries of a map in no fixed order;
\* the order shows only in the order of tr2.completedRegions.
RECURSIVE closeThreads(_, _, _)
closeThreads(ds, names, now) ==
  IF names = {} THEN ds
  ELSE LET name == CHOOSE n \in names : TRUE
           th == ds.threads[name]
           st == popAllRegionStack([stack |-> th.regionStack,
                                    completed |-> ds.completedRegions], now)
           closed == IF isIncomplete(th.endTime)
                     THEN [ds EXCEPT !.completedRegions = st.completed,
                                     !.threads[name].regionStack = st.stack,
                                     !.threads[name].endTime = now]
                     ELSE ds IN
       closeThreads(closed, names \ {name}, now)

\* Result: whether the dataset is sufficient, and the finalized dataset.
\* The exec records are not visited.
prepareDataset(ds) ==
  IF Len(ds.cmdArgv) = 0 THEN [ok |-> FALSE, tr2 |-> ds]
  ELSE LET now == NowTime
           c == [ds EXCEPT !.children = closeChildren(@, now)]
           t == closeThreads(c, DOMAIN c.threads, now)
           st == popAllRegionStack([stack |-> t.mainRegionStack,
                                    completed |-> t.completedRegions], now)
           m == [t EXCEPT !.mainRegionStack = st.stack,
                          !.completedRegions = st.completed]
           closed == IF isIncomplete(m.mainEndTime)
                     THEN [m EXCEPT !.mainEndTime = now, !.exeExitCode = -1]
                     ELSE m IN
       [ok |-> TRUE,
        tr2 |-> setQualifiedExeVerbModeName(setQualifiedExeVerbName(setQualifiedExeName(closed)))]

\* The loop over tr2.threads of prepareDataset when Go visits the entries
\* of the map in the order given.
RECURSIVE closeThreadsInOrder(_, _, _)
closeThreadsInOrder(ds, order, now) ==
  IF Len(order) = 0 THEN ds
  ELSE LET name == Head(order)
           th == ds.threads[name]
           st == popAllRegionStack([stack |-> th.regionStack,
                                    completed |-> ds.completedRegions], now)
           closed == IF isIncomplete(th.endTime)
                     THEN [ds EXCEPT !.completedRegions = st.completed,
                                     !.threads[name].regionStack = st.stack,
                                     !.threads[name].endTime = now]
                     ELSE ds IN
       closeThreadsInOrder(closed, Tail(order), now)

\* Mutant: the main thread is stamped with the time of finalization also
\* when it was closed by an exit event.
prepareDatasetAt_StampsMain(ds, now, order) ==
  IF Len(ds.cmdArgv) = 0 THEN [ok |-> FALSE, tr2 |-> ds]
  ELSE LET c == [ds EXCEPT !.children = closeChildren(@, now)]
           t == closeThreadsInOrder(c, order, now)
           st == popAllRegionStack([stack |-> t.mainRegionStack,
                                    completed |-> t.completedRegions], now)
           m == [t EXCEPT !.mainRegionStack = st.stack,
                          !.completedRegions = st.completed]
           closed == [m EXCEPT !.mainEndTime = now,
                               !.exeExitCode = IF isIncomplete(m.mainEndTime) THEN -1 ELSE @] IN
       [ok |-> TRUE,
        tr2 |-> setQualifiedExeVerbModeName(setQualifiedExeVerbName(setQualifiedExeName(closed)))]

\* prepareDataset() when time.Now() returns now and the threads map is
\* visited in the order given.
prepareDatasetAt(ds, now, order) ==
  IF Len(ds.cmdArgv) = 0 THEN [ok |-> FALSE, tr2 |-> ds]
  ELSE LET c == [ds EXCEPT !.children = closeChildren(@, now)]
           t == closeThreadsInOrder(c, order, now)
           st == popAllRegionStack([stack |-> t.mainRegionStack,
                                    completed |-> t.completedRegions], now)
           m == [t EXCEPT !.mainRegionStack = st.stack,
                          !.completedRegions = st.completed]
           closed == IF isIncomplete(m.mainEndTime)
                     THEN [m EXCEPT !.mainEndTime = now, !.exeExitCode = -1]
                     ELSE m IN
       [ok |-> TRUE,
        tr2 |-> setQualifiedExeVerbModeName(setQualifiedExeVerbName(setQualifiedExeName(closed)))]

\* The number of spans of the trace that ToTraces builds for a detail level
\* other than DROP: the process span; from PROCESS on a span per child and
\* per exec; at VERBOSE a span per thread of the threads map and per
\* completed region.
ToTracesSpanCount(ds, dl) ==
  1 + (IF dl \in {FSDetailLevelProcessName, FSDetailLevelVerboseName}
       THEN Cardinality(DOMAIN ds.children) + Cardinality(DOMAIN ds.exec) ELSE 0)
    + (IF dl = FSDetailLevelVerboseName
       THEN Cardinality(DOMAIN ds.threads) + Len(ds.completedRegions) ELSE 0)

\* Mutant: the detail level DROP is not looked at.
exportTraces_IgnoresDrop(ds) ==
  IF ~ds.sawData THEN [consume |-> FALSE, spans |-> 0, tr2 |-> ds]
  ELSE LET p == prepareDataset(ds) IN
       IF ~p.ok THEN [consume |-> FALSE, spans |-> 0, tr2 |-> p.tr2]
       ELSE [consume |-> TRUE, spans |-> ToTracesSpanCount(p.tr2, "dl:any"), tr2 |-> p.tr2]

\* Result: whether ConsumeTraces is called, the number of spans handed to
\* it, and the dataset.
exportTraces(ds) ==
  IF ~ds.sawData THEN [consume |-> FALSE, spans |-> 0, tr2 |-> ds]
  ELSE LET p == prepareDataset(ds) IN
       IF ~p.ok THEN [consume |-> FALSE, spans |-> 0, tr2 |-> p.tr2]
       ELSE LET dl == computeDetailLevel(filterSettings,
                                      p.tr2.paramSetValues, p.tr2.qualifiedNames) IN
            IF dl = FSDetailLevelDropName
            THEN [consume |-> FALSE, spans |-> 0, tr2 |-> p.tr2]
            ELSE [consume |-> TRUE, spans |-> ToTracesSpanCount(p.tr2, dl), tr2 |-> p.tr2]


\* ------------------------------------------------------------------ lines
\* The lines a client may send.
JsonLine(e) == [kind |-> "json"] @@ e

StartLines ==
  { JsonLine([event |-> "start", argv |-> a]) : a \in {<<>>, <<ArgvGit>>} }

ExitLines == { JsonLine([event |-> "atexit", time |-> EventTime, code |-> 0]) }

CmdNameLines ==
  { JsonLine([event |-> "cmd_name", name |-> n]) : n \in {"status", "fsmonitor--daemon"} }

DefParamLines ==
  { JsonLine([event |-> "def_param", param |-> RulesetKeyName, value |-> v, scope |-> "nil"]) :
      v \in {FSDetailLevelDropName, "rs:status"} }

OtherLines == { [kind |-> "blank"], [kind |-> "garbage"] }

\* Every kind of line: the input of the worker specification.
AllLines == StartLines \cup ExitLines \cup CmdNameLines \cup DefParamLines \cup OtherLines

\* The lines of the receiver specification, where the content of a dataset
\* matters only for whether it is exported.
FewLines == { JsonLine([event |-> "start", argv |-> <<ArgvGit>>]), [kind |-> "garbage"] }

\* The lines of the dataset specifications.  Event timestamps come from the
\* client's clock: they may go backwards and may lie after the receiver's
\* time.Now().
Times == {EventTime, LateTime}

ThreadNames == {"main", "th01"}

\* The version event of a top-level command.
VersionLine ==
  JsonLine([event |-> "version", thread |-> "main", time |-> EventTime, sid |-> <<"a">>])

ThreadStartLines ==
  { JsonLine([event |-> "thread_start", thread |-> n, time |-> EventTime]) : n \in ThreadNames }

ThreadExitLines ==
  { JsonLine([event |-> "thread_exit", thread |-> n, time |-> t]) :
      n \in ThreadNames, t \in Times }

\* The regions of these lines carry a category and a label that no rule of
\* the summary settings names.
RegionLines ==
  { JsonLine([event |-> e, thread |-> n, nesting |-> k, time |-> t,
              category |-> "status", label |-> "worktrees"]) :
      e \in {"region_enter", "region_leave"}, n \in ThreadNames,
      k \in 1..MaxNesting, t \in Times }

GitStartLine == JsonLine([event |-> "start", argv |-> <<ArgvGit>>])

ChildLines ==
  { JsonLine([event |-> "child_start", thread |-> n, child_id |-> 0, time |-> t]) :
      n \in ThreadNames, t \in Times }
    \cup { JsonLine([event |-> "child_exit", thread |-> "main", child_id |-> 0,
                     pid |-> 1, code |-> 0, time |-> t]) : t \in Times }

ExecLines ==
  { JsonLine([event |-> "exec", thread |-> n, exec_id |-> 0, time |-> t]) :
      n \in ThreadNames, t \in Times }
    \cup { JsonLine([event |-> "exec_result", thread |-> "main", exec_id |-> 0,
                     code |-> 1, time |-> t]) : t \in Times }

AtExitLines == { JsonLine([event |-> "atexit", time |-> t, code |-> 0]) : t \in Times }

\* The lines of the specification of span lifetimes: the process, a child,
\* an exec and regions of the main thread.
SpanSpecLines ==
  {GitStartLine, VersionLine} \cup ChildLines \cup ExecLines \cup AtExitLines
    \cup {l \in RegionLines : l.thread = "main" /\ l.nesting = 1}

DataLines ==
  { JsonLine([event |-> e, thread |-> n, nesting |-> k, key |-> "k", value |-> v,
              time |-> EventTime]) :
      e \in {"data", "data_json"}, n \in ThreadNames, k \in 1..(MaxNesting + 1),
      v \in {"v1", "v2"} }

\* The lines of the specification of data events.
DataSpecLines ==
  {l \in ThreadStartLines : l.thread # "main"}
    \cup {l \in RegionLines : l.time = EventTime} \cup DataLines

\* The scopes of the def_param lines: absent ("nil"), two scopes that
\* get_scope_priority knows, and one that it does not know.
ParamScopes == {"nil", "system", "global", "bogus"}

ParamKeys == {"k1", "k2"}

\* The lines of the specification of def_param events.
ParamSpecLines ==
  { JsonLine([event |-> "def_param", param |-> "k1", value |-> v, scope |-> sc]) :
      v \in {"v1", "v2"}, sc \in ParamScopes }
    \cup { JsonLine([event |-> "def_param", param |-> "k2", value |-> "v3", scope |-> "global"]) }

\* The lines of the specification of thread events: regions are entered at
\* one time and left, or closed by the exit of their thread, at any time.
ThreadSpecLines ==
  ThreadStartLines \cup ThreadExitLines
    \cup {l \in RegionLines : l.event = "region_enter" /\ l.time = EventTime}
    \cup {l \in RegionLines : l.event = "region_leave" /\ l.thread # "main"}

RegionSpecLines ==
  {GitStartLine, VersionLine}
    \cup {l \in ThreadStartLines \cup ThreadExitLines : l.thread # "main"} \cup RegionLines

\* Region enters whose category and label a region timer names.
TimedEnterLines ==
  { JsonLine([event |-> "region_enter", thread |-> n, nesting |-> k, time |-> t,
              category |-> c.category, label |-> c.label]) :
      n \in ThreadNames, k \in 1..MaxNesting, t \in Times,
      c \in { [category |-> "index", label |-> "refresh"],
              [category |-> "pack", label |-> "objects"] } }

LeaveLines == {l \in RegionLines : l.event = "region_leave"}

\* The lines of the specification of region_leave events: a thread starts,
\* regions that a timer counts are entered at one time and left at a later.
LeaveSpecLines ==
  {l \in ThreadStartLines : l.thread # "main"}
    \cup {l \in TimedEnterLines : l.time = EventTime /\ l.category = "index"}
    \cup {l \in LeaveLines : l.time = LateTime}

\* Messages and format strings are sequences of words; a format string may
\* be empty.
Messages == { <<"error:", "a">>, <<"warning:", "b">> }

Formats == { <<>>, <<"error:", "%s">>, <<"warning:", "%s">> }

ErrorLines ==
  { JsonLine([event |-> "error", msg |-> m, fmt |-> f]) : m \in Messages, f \in Formats }

PrintfLines == { JsonLine([event |-> "printf", msg |-> m]) : m \in Messages }

\* The lines of the specification of error and printf events.
ErrorSpecLines == ErrorLines \cup PrintfLines

\* The lines of the specification of start events: threads and children
\* start, more than once and at different times, and children exit.
StartSpecLines ==
  ChildLines
    \cup { JsonLine([event |-> "thread_start", thread |-> n, time |-> t]) :
             n \in ThreadNames, t \in Times }

RawSids == UNION { [1..n -> SidChars] : n \in 0..MaxSidLen }

\* The lines of the specification of the ids that come from the SID: a
\* version event with any SID, and a start event.
SidSpecLines ==
  { JsonLine([event |-> "version", thread |-> "main", time |-> EventTime, sid |-> sid]) :
      sid \in RawSids }
    \cup {GitStartLine}

\* The lines of the specification of the summary accumulator: regions that
\* the timers count are entered and left on the main thread and on a second
\* thread, which may exit with regions open; the process may end likewise.
SummarySpecLines ==
  {GitStartLine}
    \cup {l \in ThreadStartLines \cup ThreadExitLines : l.thread # "main" /\ l.time = EventTime}
    \cup TimedEnterLines \cup LeaveLines

\* The command tables of the ruleset rs:status: any of the three names of
\* the command git status in mode pack, each with a level of its own.
CmdMaps ==
  { [k \in keys |-> CASE k = "git:status#pack" -> FSDetailLevelDropName
                      [] k = "git:status" -> FSDetailLevelProcessName
                      [] OTHER -> FSDetailLevelVerboseName] :
      keys \in SUBSET {"git:status#pack", "git:status", "git"} }

\* Filter settings as the loader leaves them: each key name configured or
\* not, a nickname mapped to a ruleset, to nothing or not at all, a default
\* ruleset name that is empty, a detail level or a ruleset, and the ruleset
\* rs:status with one of the command tables.
FilterSettingsSet ==
  { [ RulesetKey |-> rk,
      NicknameKey |-> nk,
      NicknameMap |-> nm,
      DefaultsRulesetName |-> dr,
      rulesetDefs |-> ("rs:status" :>
          [CmdMap |-> cm, DefaultsDetailLevelName |-> FSDetailLevelSummaryName]) ] :
      rk \in {"", RulesetKeyName}, nk \in {"", NicknameKeyName},
      nm \in {EmptyMap, "monorepo" :> "rs:status", "monorepo" :> ""},
      dr \in {"", FSDetailLevelVerboseName, "rs:status"},
      cm \in CmdMaps }

\* The lines of the specification of the filter decision: the parameters
\* that name a ruleset and a nickname, and the events that name the command.
FilterSpecLines ==
  { JsonLine([event |-> "def_param", param |-> RulesetKeyName, value |-> v, scope |-> "nil"]) :
      v \in {"", FSDetailLevelProcessName, "rs:status", "rs:missing"} }
    \cup { JsonLine([event |-> "def_param", param |-> NicknameKeyName, value |-> v,
                     scope |-> "nil"]) : v \in {"monorepo", "unknown"} }
    \cup { GitStartLine,
           JsonLine([event |-> "cmd_name", name |-> "status"]),
           JsonLine([event |-> "cmd_mode", name |-> "pack"]) }

\* The lines of the specification of replay: the command starts, two
\* threads start, regions are entered on each thread and left on one, a
\* child starts, a thread and the process exit.
ReplayLines ==
  { GitStartLine, VersionLine,
    JsonLine([event |-> "atexit", time |-> EventTime, code |-> 0]),
    JsonLine([event |-> "child_start", thread |-> "main", child_id |-> 0, time |-> EventTime]),
    JsonLine([event |-> "thread_exit", thread |-> "th01", time |-> EventTime]) }
    \cup { JsonLine([event |-> "thread_start", thread |-> n, time |-> EventTime]) :
             n \in {"th01", "th02"} }
    \cup { JsonLine([event |-> "region_enter", thread |-> n, nesting |-> 1,
                     time |-> EventTime, category |-> "status", label |-> "worktrees"]) :
             n \in {"main", "th01", "th02"} }
    \cup { JsonLine([event |-> "region_leave", thread |-> "th01", nesting |-> 1,
                     time |-> EventTime, category |-> "status", label |-> "worktrees"]) }

\* ------------------------------------------------------------------ state
VARIABLES
  platform,        \* "posix" (Rcvr_UnixSocket) or "windows" (Rcvr_NamedPipe)
  isShutdown,      \* rcvr.isShutdown
  inode,           \* rcvr.inode
  mutex,           \* rcvr.mutex: "free" or the task holding it
  listenerClosed,  \* rcvr.listener has been closed
  ctxDone,         \* rcvr.Base.ctx is cancelled
  fsInode,         \* the inode at SocketPath in the file system, NoInode if none
  fatalReports,    \* number of fatal status events reported to the host
  rmCalls,         \* number of os.Remove(SocketPath) calls made since Start
  rmForeign,       \* the receiver has removed another process's file
  shutdownPc,      \* position of the host's Shutdown() call
  shutdownCalls,   \* number of Shutdown() calls that have returned
  worker_id,       \* number of workers started
  acceptPc,        \* position of the POSIX accept loop
  acceptErr,       \* the error of the last failed AcceptUnix()
  xxxLogged,       \* the accept loop logged the "XXX" error of a closed listener
  doneListening,   \* length of the doneListening channel
  sentinelPc,      \* position of the subordinate task of listenLoop
  acceptorPc,      \* position of each acceptWorker (Windows)
  acceptWorkerDoneCh, \* length of the acceptWorkerDoneCh channel (Windows)
  nrFinished,      \* nrFinished of the Windows listenLoop
  winLoopPc,       \* position of the Windows listenLoop
  wPc,             \* position of each worker
  watchPc,         \* position of each worker's subordinate task
  doneReading,     \* length of each worker's doneReading channel
  connClosed,      \* the worker's connection is closed on our side
  haveError,       \* haveError of each worker
  exitCause,       \* why each worker's read loop ended
  tr2,             \* each worker's dataset
  consumed,        \* number of ConsumeTraces calls made for each worker
  spansOut,        \* number of spans handed to the consumer for each worker
  errorLogs,       \* number of error-level log lines of each worker
  fsmSeen,         \* a cmd_name event of fsmonitor--daemon was applied by the worker
  linesRead        \* history: the lines a worker has read, where a specification logs them

VARIABLES
  replay,          \* two datasets that are given the same events, and their finalization
  mux,             \* the mutex of makeDatasetId: 0 or the caller holding it
  datasetId,       \* the process-wide counter of makeDatasetId
  mkPc,            \* position of each caller of makeDatasetId
  mkDsid           \* dsid of the callers of makeDatasetId that have read it

Callers == 1..MaxCallers

rcvrVars == <<filterSettings, platform, isShutdown, inode, mutex, listenerClosed, ctxDone, fsInode,
              fatalReports, rmCalls, rmForeign, shutdownPc, shutdownCalls>>
posixVars == <<acceptPc, acceptErr, xxxLogged, doneListening, sentinelPc>>
winVars == <<acceptorPc, acceptWorkerDoneCh, nrFinished, winLoopPc>>
workerVars == <<worker_id, wPc, watchPc, doneReading, connClosed, haveError, exitCause,
                tr2, consumed, spansOut, errorLogs, fsmSeen, linesRead>>
dsVars == <<replay, mux, datasetId, mkPc, mkDsid>>
vars == <<rcvrVars, posixVars, winVars, workerVars, dsVars>>

\* The state after Start() has returned without error: the listener is
\* open, the socket file carries the inode that was recorded, and the
\* listen loop is running.
\* The state after construction, with filter settings of the set given.
InitOf(settings) ==
  /\ filterSettings \in settings
  /\ platform \in {"posix", "windows"}
  /\ isShutdown = FALSE
  /\ inode = IF platform = "posix" THEN OurInode ELSE NoInode
  /\ mutex = "free"
  /\ listenerClosed = FALSE
  /\ ctxDone = FALSE
  /\ fsInode = OurInode
  /\ fatalReports = 0
  /\ rmCalls = 0
  /\ rmForeign = FALSE
  /\ shutdownPc = "idle"
  /\ shutdownCalls = 0
  /\ worker_id = 0
  /\ acceptPc = IF platform = "posix" THEN "accept" ELSE "none"
  /\ acceptErr = "nil"
  /\ xxxLogged = FALSE
  /\ doneListening = 0
  /\ sentinelPc = IF platform = "posix" THEN "select" ELSE "none"
  /\ acceptorPc = [a \in Acceptors |-> IF platform = "windows" THEN "accept" ELSE "none"]
  /\ acceptWorkerDoneCh = 0
  /\ nrFinished = 0
  /\ winLoopPc = IF platform = "windows" THEN "select" ELSE "none"
  /\ wPc = [w \in Workers |-> "none"]
  /\ watchPc = [w \in Workers |-> "none"]
  /\ doneReading = [w \in Workers |-> 0]
  /\ connClosed = [w \in Workers |-> FALSE]
  /\ haveError = [w \in Workers |-> FALSE]
  /\ exitCause = [w \in Workers |-> "none"]
  /\ tr2 = [w \in Workers |-> NewTrace2Dataset]
  /\ consumed = [w \in Workers |-> 0]
  /\ spansOut = [w \in Workers |-> 0]
  /\ errorLogs = [w \in Workers |-> 0]
  /\ fsmSeen = [w \in Workers |-> FALSE]
  /\ linesRead = [w \in Workers |-> <<>>]
  /\ replay = [pc |-> "new"]
  /\ mux = 0
  /\ datasetId = 0
  /\ mkPc = [c \in Callers |-> "idle"]
  /\ mkDsid = EmptyMap

Init == InitOf({TheFilterSettings})


\* ----------------------------------------------------------------- worker
\* go rcvr.worker(conn, worker_id): the worker creates its doneReading
\* channel, starts its subordinate task and creates its dataset.
StartWorker(w) ==
  /\ worker_id' = w
  /\ wPc' = [wPc EXCEPT ![w] = "read"]
  /\ watchPc' = [watchPc EXCEPT ![w] = "select"]
  /\ tr2' = [tr2 EXCEPT ![w] = NewTrace2Dataset]
  /\ UNCHANGED <<doneReading, connClosed, haveError, exitCause, consumed, spansOut,
                 errorLogs, fsmSeen, linesRead>>

\* Mutant: only EOF ends the loop without an error; a closed connection
\* counts as an error of the worker.
readErrorIsFatal_Closed(err) == err # "EOF"

\* The results of ReadBytes that end the read loop: "EOF", "closed"
\* (net.ErrClosed) and "other"; only the last is an error of the worker.
readErrorIsFatal(err) == err \notin {"EOF", "closed"}

\* One turn of the read loop that received a line: processRawLine.  A line
\* may still be delivered from the reader's buffer after the connection
\* was closed.
\* A panic in processRawLine is recovered nowhere: the worker task
\* (and the process with it) stops where it is, position "panic".
ReadLine(w, rawLine) ==
  /\ wPc[w] = "read"
  /\ LET r == processRawLine(rawLine, tr2[w]) IN
       /\ tr2' = [tr2 EXCEPT ![w] = r.tr2]
       /\ errorLogs' = [errorLogs EXCEPT ![w] = @ + r.errorLogs]
       /\ fsmSeen' = [fsmSeen EXCEPT ![w] =
              @ \/ (rawLine.kind = "json" /\ rawLine.event = "cmd_name"
                      /\ IsFSMonitorDaemon(rawLine.name))]
       /\ IF r.err = "nil"
          THEN UNCHANGED <<wPc, haveError, exitCause>>
          ELSE IF r.err = "panic"
          THEN /\ exitCause' = [exitCause EXCEPT ![w] = r.err]
               /\ wPc' = [wPc EXCEPT ![w] = "panic"]
               /\ UNCHANGED haveError
          ELSE /\ haveError' = [haveError EXCEPT ![w] = TRUE]
               /\ exitCause' = [exitCause EXCEPT ![w] = r.err]
               /\ wPc' = [wPc EXCEPT ![w] = "finish"]
  /\ UNCHANGED <<worker_id, watchPc, doneReading, connClosed, consumed, spansOut>>
  /\ UNCHANGED <<dsVars, rcvrVars, posixVars, winVars>>

\* The turn of the read loop for a line of the set L.
WorkerReadLine(w, L) ==
  \E rawLine \in L : ReadLine(w, rawLine) /\ UNCHANGED linesRead

\* The same turn, with the line appended to the history of the worker.
WorkerReadLineLogged(w, L) ==
  \E rawLine \in L :
     ReadLine(w, rawLine) /\ linesRead' = [linesRead EXCEPT ![w] = Append(@, rawLine)]

\* One turn of the read loop in which ReadBytes returned an error: EOF when
\* the client hung up, net.ErrClosed once the connection was closed on our
\* side, or any other error of the transport.
WorkerReadError(w) ==
  /\ wPc[w] = "read"
  /\ \E err \in {"EOF", "other"} \cup (IF connClosed[w] THEN {"closed"} ELSE {}) :
       /\ exitCause' = [exitCause EXCEPT ![w] = err]
       /\ haveError' = [haveError EXCEPT ![w] = readErrorIsFatal(err)]
       /\ errorLogs' = [errorLogs EXCEPT ![w] = IF readErrorIsFatal(err) THEN @ + 1 ELSE @]
  /\ wPc' = [wPc EXCEPT ![w] = "finish"]
  /\ UNCHANGED <<worker_id, watchPc, doneReading, connClosed, tr2, consumed, spansOut, fsmSeen, linesRead>>
  /\ UNCHANGED <<dsVars, rcvrVars, posixVars, winVars>>

\* Mutant: the worker exports whatever happened in the read loop.
workerExports_Always(have_error) == TRUE

\* if !haveError { tr2.exportTraces() }
workerExports(have_error) == ~have_error

\* After the loop: doneReading <- true (which blocks while the channel is
\* full), conn.Close(), and exportTraces() unless haveError.  The consumer
\* is taken to accept the traces (exportTraces only logs its error).
WorkerFinish(w) ==
  /\ wPc[w] = "finish"
  /\ doneReading[w] < DoneReadingCap
  /\ doneReading' = [doneReading EXCEPT ![w] = @ + 1]
  /\ connClosed' = [connClosed EXCEPT ![w] = TRUE]
  /\ IF ~workerExports(haveError[w])
     THEN UNCHANGED <<tr2, consumed, spansOut, errorLogs>>
     ELSE LET x == exportTraces(tr2[w]) IN
          /\ tr2' = [tr2 EXCEPT ![w] = x.tr2]
          /\ consumed' = [consumed EXCEPT ![w] = IF x.consume THEN @ + 1 ELSE @]
          /\ spansOut' = [spansOut EXCEPT ![w] = @ + x.spans]
          /\ UNCHANGED errorLogs
  /\ wPc' = [wPc EXCEPT ![w] = "join"]
  /\ UNCHANGED <<worker_id, watchPc, haveError, exitCause, fsmSeen, linesRead>>
  /\ UNCHANGED <<dsVars, rcvrVars, posixVars, winVars>>

\* Mutant: the worker returns without waiting for its subordinate task.
WorkerJoin_NoWait(w) ==
  /\ wPc[w] = "join"
  /\ wPc' = [wPc EXCEPT ![w] = "done"]
  /\ UNCHANGED <<worker_id, watchPc, doneReading, connClosed, haveError, exitCause,
                 tr2, consumed, spansOut, errorLogs, fsmSeen, linesRead>>
  /\ UNCHANGED <<dsVars, rcvrVars, posixVars, winVars>>

\* wg.Wait(): the worker returns once its subordinate task has finished.
WorkerJoin(w) ==
  /\ wPc[w] = "join"
  /\ watchPc[w] = "done"
  /\ wPc' = [wPc EXCEPT ![w] = "done"]
  /\ UNCHANGED <<worker_id, watchPc, doneReading, connClosed, haveError, exitCause,
                 tr2, consumed, spansOut, errorLogs, fsmSeen, linesRead>>
  /\ UNCHANGED <<dsVars, rcvrVars, posixVars, winVars>>

\* Mutant: the subordinate task leaves on cancellation without closing the
\* connection.
WatcherCancel_NoClose(w) ==
  /\ watchPc[w] = "select"
  /\ ctxDone
  /\ watchPc' = [watchPc EXCEPT ![w] = "done"]
  /\ UNCHANGED <<worker_id, wPc, doneReading, connClosed, haveError, exitCause, tr2,
                 consumed, spansOut, errorLogs, fsmSeen, linesRead>>
  /\ UNCHANGED <<dsVars, rcvrVars, posixVars, winVars>>

\* The subordinate task, case <-rcvr.Base.ctx.Done(): conn.Close().
WatcherCancel(w) ==
  /\ watchPc[w] = "select"
  /\ ctxDone
  /\ connClosed' = [connClosed EXCEPT ![w] = TRUE]
  /\ watchPc' = [watchPc EXCEPT ![w] = "done"]
  /\ UNCHANGED <<worker_id, wPc, doneReading, haveError, exitCause, tr2, consumed,
                 spansOut, errorLogs, fsmSeen, linesRead>>
  /\ UNCHANGED <<dsVars, rcvrVars, posixVars, winVars>>

\* The subordinate task, case <-doneReading.
WatcherDone(w) ==
  /\ watchPc[w] = "select"
  /\ doneReading[w] > 0
  /\ doneReading' = [doneReading EXCEPT ![w] = @ - 1]
  /\ watchPc' = [watchPc EXCEPT ![w] = "done"]
  /\ UNCHANGED <<worker_id, wPc, connClosed, haveError, exitCause, tr2, consumed,
                 spansOut, errorLogs, fsmSeen, linesRead>>
  /\ UNCHANGED <<dsVars, rcvrVars, posixVars, winVars>>


\* ------------------------------------------------- Rcvr_UnixSocket (POSIX)
\* Shutdown(): rcvr.mutex.Lock().
ShutdownLock ==
  /\ platform = "posix"
  /\ shutdownPc = "idle"
  /\ shutdownCalls < MaxShutdownCalls
  /\ mutex = "free"
  /\ mutex' = "shutdown"
  /\ shutdownPc' = "locked"
  /\ UNCHANGED <<dsVars, filterSettings, platform, isShutdown, inode, listenerClosed, ctxDone, fsInode, fatalReports,
                 rmCalls, rmForeign, shutdownCalls>>
  /\ UNCHANGED <<posixVars, winVars, workerVars>>

\* Mutant: Shutdown() unlinks the socket path whatever the receiver thinks.
ShutdownUnlinks_Always(ino) == TRUE

\* Shutdown() unlinks the socket only if the receiver thinks it owns it.
ShutdownUnlinks(ino) == ino # NoInode

\* Shutdown() with the mutex held: isShutdown, the optional unlink,
\* listener.Close(), Base.cancel(), rcvr.mutex.Unlock().
ShutdownBody ==
  /\ shutdownPc = "locked"
  /\ isShutdown' = TRUE
  /\ IF ShutdownUnlinks(inode)
     THEN /\ rmCalls' = rmCalls + 1
          /\ rmForeign' = (rmForeign \/ fsInode = ForeignInode)
          /\ fsInode' = NoInode
          /\ inode' = NoInode
     ELSE UNCHANGED <<rmCalls, rmForeign, fsInode, inode>>
  /\ listenerClosed' = TRUE
  /\ ctxDone' = TRUE
  /\ mutex' = "free"
  /\ shutdownPc' = "idle"
  /\ shutdownCalls' = shutdownCalls + 1
  /\ UNCHANGED <<dsVars, filterSettings, platform, fatalReports>>
  /\ UNCHANGED <<posixVars, winVars, workerVars>>

\* The accept loop: AcceptUnix() returned a connection; a worker is started.
AcceptConn ==
  /\ acceptPc = "accept"
  /\ ~listenerClosed
  /\ worker_id < MaxWorkers
  /\ StartWorker(worker_id + 1)
  /\ UNCHANGED <<dsVars, rcvrVars, posixVars, winVars>>

\* The accept loop: AcceptUnix() returned an error (net.ErrClosed once the
\* listener is closed, an ordinary error before), and the loop took the
\* mutex.
AcceptFail ==
  /\ acceptPc = "accept"
  /\ mutex = "free"
  /\ acceptErr' = IF listenerClosed THEN "closed" ELSE "other"
  /\ mutex' = "accept"
  /\ acceptPc' = "locked"
  /\ UNCHANGED <<dsVars, filterSettings, platform, isShutdown, inode, listenerClosed, ctxDone, fsInode, fatalReports,
                 rmCalls, rmForeign, shutdownPc, shutdownCalls>>
  /\ UNCHANGED <<xxxLogged, doneListening, sentinelPc>>
  /\ UNCHANGED <<winVars, workerVars>>

\* Mutant: the loop never breaks; it goes back to AcceptUnix().
AcceptHandle_NoBreak ==
  /\ acceptPc = "locked"
  /\ mutex' = "free"
  /\ acceptPc' = "accept"
  /\ UNCHANGED <<dsVars, filterSettings, platform, isShutdown, inode, listenerClosed, ctxDone, fsInode, fatalReports,
                 rmCalls, rmForeign, shutdownPc, shutdownCalls>>
  /\ UNCHANGED <<acceptErr, xxxLogged, doneListening, sentinelPc>>
  /\ UNCHANGED <<winVars, workerVars>>

\* The accept loop with the mutex held: break when the receiver is shut
\* down or gave the path up, break with an error logged when the listener
\* was closed, continue otherwise.
AcceptHandle ==
  /\ acceptPc = "locked"
  /\ mutex' = "free"
  /\ IF isShutdown \/ inode = NoInode
     THEN acceptPc' = "signal" /\ UNCHANGED xxxLogged
     ELSE IF acceptErr = "closed"
          THEN acceptPc' = "signal" /\ xxxLogged' = TRUE
          ELSE acceptPc' = "accept" /\ UNCHANGED xxxLogged
  /\ UNCHANGED <<dsVars, filterSettings, platform, isShutdown, inode, listenerClosed, ctxDone, fsInode, fatalReports,
                 rmCalls, rmForeign, shutdownPc, shutdownCalls>>
  /\ UNCHANGED <<acceptErr, doneListening, sentinelPc>>
  /\ UNCHANGED <<winVars, workerVars>>

\* After the loop: doneListening <- true.
AcceptSignal ==
  /\ acceptPc = "signal"
  /\ doneListening < DoneListeningCap
  /\ doneListening' = doneListening + 1
  /\ acceptPc' = "wait"
  /\ UNCHANGED <<acceptErr, xxxLogged, sentinelPc>>
  /\ UNCHANGED <<dsVars, rcvrVars, winVars, workerVars>>

\* wg.Wait(): listenLoop returns once its subordinate task has finished.
AcceptWait ==
  /\ acceptPc = "wait"
  /\ sentinelPc = "done"
  /\ acceptPc' = "done"
  /\ UNCHANGED <<acceptErr, xxxLogged, doneListening, sentinelPc>>
  /\ UNCHANGED <<dsVars, rcvrVars, winVars, workerVars>>

\* The subordinate task of listenLoop, case <-rcvr.Base.ctx.Done().
SentinelCtxDone ==
  /\ sentinelPc = "select"
  /\ ctxDone
  /\ listenerClosed' = TRUE
  /\ sentinelPc' = "done"
  /\ UNCHANGED <<dsVars, filterSettings, platform, isShutdown, inode, mutex, ctxDone, fsInode, fatalReports,
                 rmCalls, rmForeign, shutdownPc, shutdownCalls>>
  /\ UNCHANGED <<acceptPc, acceptErr, xxxLogged, doneListening>>
  /\ UNCHANGED <<winVars, workerVars>>

\* The subordinate task of listenLoop, case <-doneListening.
SentinelDoneListening ==
  /\ sentinelPc = "select"
  /\ doneListening > 0
  /\ doneListening' = doneListening - 1
  /\ sentinelPc' = "done"
  /\ UNCHANGED <<acceptPc, acceptErr, xxxLogged>>
  /\ UNCHANGED <<dsVars, rcvrVars, winVars, workerVars>>

\* The subordinate task of listenLoop, case <-ticker.C: rcvr.mutex.Lock().
SentinelTickLock ==
  /\ sentinelPc = "select"
  /\ mutex = "free"
  /\ mutex' = "sentinel"
  /\ sentinelPc' = "locked"
  /\ UNCHANGED <<dsVars, filterSettings, platform, isShutdown, inode, listenerClosed, ctxDone, fsInode, fatalReports,
                 rmCalls, rmForeign, shutdownPc, shutdownCalls>>
  /\ UNCHANGED <<acceptPc, acceptErr, xxxLogged, doneListening>>
  /\ UNCHANGED <<winVars, workerVars>>

\* get_inode(rcvr.SocketPath) fails when the path does not exist.
get_inode(fs) == [ino |-> fs, err |-> (fs = NoInode)]

\* The tick finds the path missing or carrying another inode.
SentinelSeesStolen(ino, fs) ==
  LET g == get_inode(fs) IN g.err \/ g.ino # ino

\* Mutant: after reporting, the task keeps the inode and goes on watching.
SentinelTick_KeepsWatching ==
  /\ sentinelPc = "locked"
  /\ mutex' = "free"
  /\ IF isShutdown \/ inode = NoInode
     THEN sentinelPc' = "done" /\ UNCHANGED <<inode, fatalReports>>
     ELSE IF SentinelSeesStolen(inode, fsInode)
          THEN /\ UNCHANGED inode
               /\ fatalReports' = fatalReports + 1
               /\ sentinelPc' = "select"
          ELSE sentinelPc' = "select" /\ UNCHANGED <<inode, fatalReports>>
  /\ UNCHANGED <<dsVars, filterSettings, platform, isShutdown, listenerClosed, ctxDone, fsInode,
                 rmCalls, rmForeign, shutdownPc, shutdownCalls>>
  /\ UNCHANGED <<acceptPc, acceptErr, xxxLogged, doneListening>>
  /\ UNCHANGED <<winVars, workerVars>>

\* Mutant: after reporting, the task leaves but still claims the inode.
SentinelTick_KeepsInode ==
  /\ sentinelPc = "locked"
  /\ mutex' = "free"
  /\ IF isShutdown \/ inode = NoInode
     THEN sentinelPc' = "done" /\ UNCHANGED <<inode, fatalReports>>
     ELSE IF SentinelSeesStolen(inode, fsInode)
          THEN /\ UNCHANGED inode
               /\ fatalReports' = fatalReports + 1
               /\ sentinelPc' = "done"
          ELSE sentinelPc' = "select" /\ UNCHANGED <<inode, fatalReports>>
  /\ UNCHANGED <<dsVars, filterSettings, platform, isShutdown, listenerClosed, ctxDone, fsInode,
                 rmCalls, rmForeign, shutdownPc, shutdownCalls>>
  /\ UNCHANGED <<acceptPc, acceptErr, xxxLogged, doneListening>>
  /\ UNCHANGED <<winVars, workerVars>>

\* Mutant: the tick handler looks at the path without asking whether the
\* receiver was shut down or gave the path up.
SentinelTick_NoGuard ==
  /\ sentinelPc = "locked"
  /\ mutex' = "free"
  /\ IF SentinelSeesStolen(inode, fsInode)
     THEN /\ inode' = NoInode
          /\ fatalReports' = fatalReports + 1
          /\ sentinelPc' = "done"
     ELSE sentinelPc' = "select" /\ UNCHANGED <<inode, fatalReports>>
  /\ UNCHANGED <<dsVars, filterSettings, platform, isShutdown, listenerClosed, ctxDone, fsInode,
                 rmCalls, rmForeign, shutdownPc, shutdownCalls>>
  /\ UNCHANGED <<acceptPc, acceptErr, xxxLogged, doneListening>>
  /\ UNCHANGED <<winVars, workerVars>>

\* Mutant: the branch that reports the stolen path leaves the loop without
\* rcvr.mutex.Unlock().
SentinelTick_NoUnlock ==
  /\ sentinelPc = "locked"
  /\ IF isShutdown \/ inode = NoInode
     THEN mutex' = "free" /\ sentinelPc' = "done" /\ UNCHANGED <<inode, fatalReports>>
     ELSE IF SentinelSeesStolen(inode, fsInode)
          THEN /\ inode' = NoInode
               /\ fatalReports' = fatalReports + 1
               /\ sentinelPc' = "done"
               /\ UNCHANGED mutex
          ELSE mutex' = "free" /\ sentinelPc' = "select" /\ UNCHANGED <<inode, fatalReports>>
  /\ UNCHANGED <<dsVars, filterSettings, platform, isShutdown, listenerClosed, ctxDone, fsInode,
                 rmCalls, rmForeign, shutdownPc, shutdownCalls>>
  /\ UNCHANGED <<acceptPc, acceptErr, xxxLogged, doneListening>>
  /\ UNCHANGED <<winVars, workerVars>>

\* The tick handler with the mutex held.
SentinelTick ==
  /\ sentinelPc = "locked"
  /\ mutex' = "free"
  /\ IF isShutdown \/ inode = NoInode
     THEN sentinelPc' = "done" /\ UNCHANGED <<inode, fatalReports>>
     ELSE IF SentinelSeesStolen(inode, fsInode)
          THEN /\ inode' = NoInode
               /\ fatalReports' = fatalReports + 1
               /\ sentinelPc' = "done"
          ELSE sentinelPc' = "select" /\ UNCHANGED <<inode, fatalReports>>
  /\ UNCHANGED <<dsVars, filterSettings, platform, isShutdown, listenerClosed, ctxDone, fsInode,
                 rmCalls, rmForeign, shutdownPc, shutdownCalls>>
  /\ UNCHANGED <<acceptPc, acceptErr, xxxLogged, doneListening>>
  /\ UNCHANGED <<winVars, workerVars>>

\* Another process unlinks the socket path or puts its own file there.
EnvSteal ==
  /\ platform = "posix"
  /\ \E ino \in {NoInode, ForeignInode} \ {fsInode} : fsInode' = ino
  /\ UNCHANGED <<dsVars, filterSettings, platform, isShutdown, inode, mutex, listenerClosed, ctxDone, fatalReports,
                 rmCalls, rmForeign, shutdownPc, shutdownCalls>>
  /\ UNCHANGED <<posixVars, winVars, workerVars>>


\* ------------------------------------------------ Rcvr_NamedPipe (Windows)
\* Shutdown(): listener.Close(), os.Remove(NamedPipePath), Base.cancel().
WinShutdown ==
  /\ platform = "windows"
  /\ shutdownCalls < MaxShutdownCalls
  /\ listenerClosed' = TRUE
  /\ fsInode' = NoInode
  /\ rmCalls' = rmCalls + 1
  /\ ctxDone' = TRUE
  /\ shutdownCalls' = shutdownCalls + 1
  /\ UNCHANGED <<dsVars, filterSettings, platform, isShutdown, inode, mutex, fatalReports, rmForeign, shutdownPc>>
  /\ UNCHANGED <<posixVars, winVars, workerVars>>

\* acceptWorker: Accept() returned a connection; a worker is started.
WinAcceptConn(a) ==
  /\ acceptorPc[a] = "accept"
  /\ ~listenerClosed
  /\ worker_id < MaxWorkers
  /\ StartWorker(worker_id + 1)
  /\ UNCHANGED <<dsVars, rcvrVars, posixVars, winVars>>

\* acceptWorker: Accept() returned net.ErrClosed; the loop ends.  (Any
\* other error is logged and the loop goes on, which changes no state.)
WinAcceptClosed(a) ==
  /\ acceptorPc[a] = "accept"
  /\ listenerClosed
  /\ acceptorPc' = [acceptorPc EXCEPT ![a] = "send"]
  /\ UNCHANGED <<acceptWorkerDoneCh, nrFinished, winLoopPc>>
  /\ UNCHANGED <<dsVars, rcvrVars, posixVars, workerVars>>

\* acceptWorker: doneCh <- true, on a channel of capacity acceptPoolSize.
WinAcceptorDone(a) ==
  /\ acceptorPc[a] = "send"
  /\ acceptWorkerDoneCh < AcceptPoolSize
  /\ acceptWorkerDoneCh' = acceptWorkerDoneCh + 1
  /\ acceptorPc' = [acceptorPc EXCEPT ![a] = "done"]
  /\ UNCHANGED <<nrFinished, winLoopPc>>
  /\ UNCHANGED <<dsVars, rcvrVars, posixVars, workerVars>>

\* listenLoop, case <-rcvr.Base.ctx.Done(): listener.Close().
WinLoopCtxDone ==
  /\ winLoopPc = "select"
  /\ ctxDone
  /\ listenerClosed' = TRUE
  /\ UNCHANGED <<dsVars, filterSettings, platform, isShutdown, inode, mutex, ctxDone, fsInode, fatalReports,
                 rmCalls, rmForeign, shutdownPc, shutdownCalls>>
  /\ UNCHANGED <<posixVars, winVars, workerVars>>

\* listenLoop, case <-acceptWorkerDoneCh: count, and leave the loop when
\* every acceptor has reported.
WinLoopRecv ==
  /\ winLoopPc = "select"
  /\ acceptWorkerDoneCh > 0
  /\ acceptWorkerDoneCh' = acceptWorkerDoneCh - 1
  /\ nrFinished' = nrFinished + 1
  /\ winLoopPc' = IF nrFinished + 1 = AcceptPoolSize THEN "done" ELSE "select"
  /\ UNCHANGED acceptorPc
  /\ UNCHANGED <<dsVars, rcvrVars, posixVars, workerVars>>

\* ---------------------------------------------------------- specifications
WorkerStep(L) ==
  \E w \in Workers :
    \/ WorkerReadLine(w, L)
    \/ WorkerReadError(w)
    \/ WorkerFinish(w)
    \/ WorkerJoin(w)
    \/ WatcherCancel(w)
    \/ WatcherDone(w)

PosixStep ==
  \/ ShutdownLock
  \/ ShutdownBody
  \/ AcceptConn
  \/ AcceptFail
  \/ AcceptHandle
  \/ AcceptSignal
  \/ AcceptWait
  \/ SentinelCtxDone
  \/ SentinelDoneListening
  \/ SentinelTickLock
  \/ SentinelTick
  \/ EnvSteal

WinStep ==
  \/ WinShutdown
  \/ WinLoopCtxDone
  \/ WinLoopRecv
  \/ \E a \in Acceptors :
       \/ WinAcceptConn(a)
       \/ WinAcceptClosed(a)
       \/ WinAcceptorDone(a)

\* The receiver on either platform, with the workers it starts.
Next == PosixStep \/ WinStep \/ WorkerStep(FewLines)

Spec == Init /\ [][Next]_vars


\* The workers in detail: the connections of a POSIX receiver whose clients
\* send every kind of line, with Shutdown() as the source of cancellation.
WorkerInit == Init /\ platform = "posix"

WorkerNext ==
  \/ ShutdownLock
  \/ ShutdownBody
  \/ AcceptConn
  \/ WorkerStep(AllLines)

WorkerSpec == WorkerInit /\ [][WorkerNext]_vars


\* The steps the Go scheduler and the kernel guarantee: a task that can
\* take a step takes it.  Nothing is assumed of the clients (lines, EOF,
\* transport errors, new connections), of other processes (the socket
\* path), of the ticker, or of the host calling Shutdown().
WorkerFairness ==
  \A w \in Workers :
    /\ WF_vars(WorkerReadError(w) /\ exitCause'[w] = "closed")
    /\ WF_vars(WorkerFinish(w))
    /\ WF_vars(WorkerJoin(w))
    /\ WF_vars(WatcherCancel(w))
    /\ WF_vars(WatcherDone(w))

PosixFairness ==
  /\ WF_vars(ShutdownBody)
  /\ WF_vars(AcceptFail /\ listenerClosed)
  /\ WF_vars(AcceptHandle)
  /\ WF_vars(AcceptSignal)
  /\ WF_vars(AcceptWait)
  /\ WF_vars(SentinelCtxDone)
  /\ WF_vars(SentinelDoneListening)
  /\ WF_vars(SentinelTick)

WinFairness ==
  /\ WF_vars(WinLoopRecv)
  /\ \A a \in Acceptors : WF_vars(WinAcceptClosed(a)) /\ WF_vars(WinAcceptorDone(a))

LiveSpec == Spec /\ WorkerFairness /\ PosixFairness /\ WinFairness

\* The workers alone, with the Shutdown() that cancels them, under the
\* fairness of their own steps.
WorkerLiveNext == ShutdownLock \/ ShutdownBody \/ AcceptConn \/ WorkerStep(FewLines)

WorkerLiveSpec == WorkerInit /\ [][WorkerLiveNext]_vars /\ WorkerFairness

\* The listen loops alone: no step of a worker reads or writes a variable
\* of the receiver or of its listen loop, so the workers that are started
\* are left where they start.
ListenNext == PosixStep \/ WinStep

ListenLiveSpec == Init /\ [][ListenNext]_vars /\ PosixFairness /\ WinFairness

\* The listen loops under a host whose calls of Shutdown() are pending: a
\* call that waits in rcvr.mutex.Lock() gets the mutex when the mutex is
\* free again and again (a waiter of sync.Mutex is handed the mutex once
\* it has waited long).
ShutdownLiveSpec == ListenLiveSpec /\ SF_vars(ShutdownLock)

\* The dataset specifications: the first connection, whose worker reads
\* lines of a given set until the stream ends; a dataset draws at most
\* MaxSpans ids.
DatasetStep(L) ==
  \/ worker_id = 0 /\ AcceptConn
  \/ WorkerReadLine(1, L) /\ tr2'[1].nrSpanIDs <= MaxSpans
  \/ WorkerReadError(1)
  \/ WorkerFinish(1)

\* The lines of the specification of open regions, where timestamps do not
\* matter.
NestSpecLines ==
  {GitStartLine, VersionLine} \cup ThreadStartLines
    \cup {l \in ThreadExitLines \cup RegionLines : l.time = EventTime}

NestNext == DatasetStep(NestSpecLines)

NestSpec == WorkerInit /\ [][NestNext]_vars

SpanNext == DatasetStep(SpanSpecLines)

SpanSpec == WorkerInit /\ [][SpanNext]_vars

DataNext == DatasetStep(DataSpecLines)

DataSpec == WorkerInit /\ [][DataNext]_vars

\* The specification of def_param events: the worker of the first
\* connection reads at most MaxEvents lines, which are logged.
ParamNext ==
  \/ worker_id = 0 /\ AcceptConn
  \/ WorkerReadLineLogged(1, ParamSpecLines) /\ Len(linesRead'[1]) <= MaxEvents
  \/ WorkerReadError(1)
  \/ WorkerFinish(1)

ParamSpec == WorkerInit /\ [][ParamNext]_vars

\* The worker of the first connection reads at most MaxEvents lines of L,
\* which are logged.
LoggedStep(L) ==
  \/ worker_id = 0 /\ AcceptConn
  \/ WorkerReadLineLogged(1, L) /\ Len(linesRead'[1]) <= MaxEvents
  \/ WorkerReadError(1)
  \/ WorkerFinish(1)

LeaveNext == LoggedStep(LeaveSpecLines)

LeaveSpec == WorkerInit /\ [][LeaveNext]_vars

ErrorNext == LoggedStep(ErrorSpecLines)

ErrorSpec == WorkerInit /\ [][ErrorNext]_vars

StartNext == LoggedStep(StartSpecLines)

StartSpec == WorkerInit /\ [][StartNext]_vars

SidNext == DatasetStep(SidSpecLines)

SidSpec == WorkerInit /\ [][SidNext]_vars

SummaryNext == DatasetStep(SummarySpecLines)

SummarySpec == WorkerInit /\ [][SummaryNext]_vars

\* The specification of the filter decision: the receiver is created with
\* any of the filter settings.
FilterInit == InitOf(FilterSettingsSet) /\ platform = "posix"

FilterNext == DatasetStep(FilterSpecLines)

FilterSpec == FilterInit /\ [][FilterNext]_vars

\* ----------------------------------------------------------------- replay
\* The orders in which a range loop may visit the keys of a map.
Orders(keys) ==
  { o \in [1..Cardinality(keys) -> keys] : \A k \in keys : \E i \in DOMAIN o : o[i] = k }

\* NewTrace2Dataset(), twice: each dataset seeds its random source from
\* crypto/rand.
ReplayNew ==
  /\ replay.pc = "new"
  /\ \E seedA, seedB \in 0..1 :
       replay' = [pc |-> "apply", n |-> 0,
                  a |-> [NewTrace2Dataset EXCEPT !.rngSeed = seedA],
                  b |-> [NewTrace2Dataset EXCEPT !.rngSeed = seedB]]
  /\ UNCHANGED <<mux, datasetId, mkPc, mkDsid>>
  /\ UNCHANGED <<rcvrVars, posixVars, winVars, workerVars>>

\* One line of L is processed for both datasets; an error ends the stream
\* as it ends the read loop of a worker.
ReplayApply(L) ==
  /\ replay.pc = "apply"
  /\ replay.n < MaxReplay
  /\ \E rawLine \in L :
       LET ra == processRawLine(rawLine, replay.a)
           rb == processRawLine(rawLine, replay.b) IN
       replay' = IF ra.err = "nil" /\ rb.err = "nil"
                 THEN [replay EXCEPT !.n = @ + 1, !.a = ra.tr2, !.b = rb.tr2]
                 ELSE [replay EXCEPT !.pc = "error", !.a = ra.tr2, !.b = rb.tr2]
  /\ UNCHANGED <<mux, datasetId, mkPc, mkDsid>>
  /\ UNCHANGED <<rcvrVars, posixVars, winVars, workerVars>>

\* prepareDataset() for both datasets: each call reads the clock and visits
\* the threads map on its own.  The datasets as they were before, the times
\* and the orders are kept.
ReplayFinalize ==
  /\ replay.pc = "apply"
  /\ \E nowA, nowB \in {NowTime, NowTime + 1} :
       \E orderA \in Orders(DOMAIN replay.a.threads), orderB \in Orders(DOMAIN replay.b.threads) :
          LET pa == prepareDatasetAt(replay.a, nowA, orderA)
              pb == prepareDatasetAt(replay.b, nowB, orderB) IN
          replay' = [pc |-> IF pa.ok /\ pb.ok THEN "final" ELSE "insufficient",
                     n |-> replay.n,
                     a |-> pa.tr2, b |-> pb.tr2,
                     openA |-> replay.a, openB |-> replay.b,
                     nowA |-> nowA, nowB |-> nowB,
                     orderA |-> orderA, orderB |-> orderB]
  /\ UNCHANGED <<mux, datasetId, mkPc, mkDsid>>
  /\ UNCHANGED <<rcvrVars, posixVars, winVars, workerVars>>

ReplayNext == ReplayNew \/ ReplayApply(ReplayLines) \/ ReplayFinalize

ReplaySpec == WorkerInit /\ [][ReplayNext]_vars

\* ------------------------------------------------------------ dataset ids
\* Mutant: makeDatasetId does not take the mutex.
MakeLock_NoMutex(c) ==
  /\ mkPc[c] = "idle"
  /\ mkPc' = [mkPc EXCEPT ![c] = "read"]
  /\ UNCHANGED <<replay, mux, datasetId, mkDsid>>
  /\ UNCHANGED <<rcvrVars, posixVars, winVars, workerVars>>

\* mux.Lock()
MakeLock(c) ==
  /\ mkPc[c] = "idle"
  /\ mux = 0
  /\ mux' = c
  /\ mkPc' = [mkPc EXCEPT ![c] = "read"]
  /\ UNCHANGED <<replay, datasetId, mkDsid>>
  /\ UNCHANGED <<rcvrVars, posixVars, winVars, workerVars>>

\* dsid := datasetId
MakeRead(c) ==
  /\ mkPc[c] = "read"
  /\ mkDsid' = MapPut(mkDsid, c, datasetId)
  /\ mkPc' = [mkPc EXCEPT ![c] = "increment"]
  /\ UNCHANGED <<replay, mux, datasetId>>
  /\ UNCHANGED <<rcvrVars, posixVars, winVars, workerVars>>

\* datasetId++
MakeIncrement(c) ==
  /\ mkPc[c] = "increment"
  /\ datasetId' = datasetId + 1
  /\ mkPc' = [mkPc EXCEPT ![c] = "unlock"]
  /\ UNCHANGED <<replay, mux, mkDsid>>
  /\ UNCHANGED <<rcvrVars, posixVars, winVars, workerVars>>

\* mux.Unlock(); return dsid
MakeUnlock(c) ==
  /\ mkPc[c] = "unlock"
  /\ mux' = IF mux = c THEN 0 ELSE mux
  /\ mkPc' = [mkPc EXCEPT ![c] = "done"]
  /\ UNCHANGED <<replay, datasetId, mkDsid>>
  /\ UNCHANGED <<rcvrVars, posixVars, winVars, workerVars>>

\* The tasks that start a dataset call makeDatasetId() at any time.
MakeNext ==
  \E c \in Callers : MakeLock(c) \/ MakeRead(c) \/ MakeIncrement(c) \/ MakeUnlock(c)

MakeSpec == WorkerInit /\ [][MakeNext]_vars

ThreadNext == DatasetStep(ThreadSpecLines)

ThreadSpec == WorkerInit /\ [][ThreadNext]_vars

RegionNext == DatasetStep(RegionSpecLines)

RegionSpec == WorkerInit /\ [][RegionNext]_vars

\* ------------------------------------------------------------------ claims
\* The worker has left its read loop and has run exportTraces() if it was
\* going to.
Finished(w) == wPc[w] \in {"join", "done"}

\* prepareDataset() returns true for the dataset.
Sufficient(ds) == Len(ds.cmdArgv) > 0

\* The detail level computed for a sufficient dataset is DROP.
Dropped(ds) ==
  /\ Sufficient(ds)
  /\ computeDetailLevel(filterSettings, ds.paramSetValues,
                        prepareDataset(ds).tr2.qualifiedNames) = FSDetailLevelDropName

C2_FSMonitorAbandoned ==
  \A w \in Workers :
    fsmSeen[w] =>
      /\ wPc[w] # "read"
      /\ exitCause[w] = "reject"
      /\ consumed[w] = 0
      /\ spansOut[w] = 0
      /\ errorLogs[w] = 0

\* A worker has finished after a start event, an exit event and then the
\* cmd_name event of fsmonitor--daemon.
C2_Witness ==
  \E w \in Workers :
    /\ fsmSeen[w] /\ wPc[w] = "done"
    /\ Sufficient(tr2[w]) /\ ~isIncomplete(tr2[w].mainEndTime)

\* C3: when the read loop ends with a read error other than EOF or a
\* closed connection, with a line that fails to parse, or with an error of
\* the state machine that is not the rejection, the worker hands nothing
\* to the consumer.
C3_ErrorsNeverExport ==
  \A w \in Workers :
    exitCause[w] \notin {"none", "EOF", "closed", "reject"} =>
      /\ haveError[w]
      /\ consumed[w] = 0
      /\ spansOut[w] = 0

\* A worker has finished on a malformed line that came after a start and
\* an exit event.
C3_Witness ==
  \E w \in Workers :
    /\ wPc[w] = "done" /\ exitCause[w] = "parse"
    /\ Sufficient(tr2[w]) /\ ~isIncomplete(tr2[w].mainEndTime)

\* C4 as claimed: for every finished connection, zero spans were handed to
\* the consumer if and only if the detail level is DROP, the dataset is
\* insufficient, or the client was rejected.
C4_ZeroSpansIff_Claimed ==
  \A w \in Workers :
    Finished(w) =>
      (spansOut[w] = 0 <=>
         (Dropped(tr2[w]) \/ ~Sufficient(tr2[w]) \/ exitCause[w] = "reject"))

\* C4 as amended: for every finished connection, zero spans were handed to
\* the consumer if and only if the detail level is DROP, the dataset is
\* insufficient, the client was rejected, or the worker stopped on a read
\* error or on a line that failed to parse.
C4_ZeroSpansIff ==
  \A w \in Workers :
    Finished(w) =>
      (spansOut[w] = 0 <=>
         (Dropped(tr2[w]) \/ ~Sufficient(tr2[w]) \/ exitCause[w] = "reject"
            \/ exitCause[w] \in {"other", "parse"}))

\* A worker has finished on EOF with a sufficient dataset whose detail
\* level is DROP, and handed nothing over.
C4_Witness ==
  \E w \in Workers :
    /\ wPc[w] = "done" /\ exitCause[w] = "EOF"
    /\ Dropped(tr2[w]) /\ spansOut[w] = 0

\* C5: once the cancellation signal has fired, every worker that is
\* blocked reading from its connection eventually terminates.
C5_CancelUnblocksWorkers ==
  \A w \in Workers : (ctxDone /\ wPc[w] = "read") ~> (wPc[w] = "done")

\* A worker has terminated because its connection was closed after the
\* cancellation.
C5_Witness ==
  \E w \in Workers :
    /\ ctxDone /\ wPc[w] = "done" /\ exitCause[w] = "closed" /\ watchPc[w] = "done"

\* C6: a worker that has returned has joined its cancellation watcher;
\* the completion signal never blocks; and a worker that has left its read
\* loop eventually returns.
C6_WatcherJoined ==
  /\ [](\A w \in Workers :
          /\ wPc[w] = "done" => watchPc[w] = "done"
          /\ wPc[w] = "finish" => doneReading[w] < DoneReadingCap)
  /\ \A w \in Workers : (wPc[w] = "finish") ~> (wPc[w] = "done")

\* A worker has returned whose watcher had already left on cancellation:
\* the completion signal is still in the channel.
C6_Witness ==
  \E w \in Workers :
    /\ wPc[w] = "done" /\ watchPc[w] = "done" /\ doneReading[w] = 1

\* The listen loop and all of its tasks have terminated.
ListenLoopDone ==
  IF platform = "posix"
  THEN acceptPc = "done" /\ sentinelPc = "done"
  ELSE winLoopPc = "done" /\ \A a \in Acceptors : acceptorPc[a] = "done"

\* C7: after the listening endpoint is closed, the accept tasks and the
\* listen loop terminate (POSIX: the accept loop and its subordinate task;
\* Windows: the loop, after every acceptor has reported), and the accept
\* loop never logs the closed listener as an error.
C7_ListenersTerminate ==
  /\ [](~xxxLogged)
  /\ listenerClosed ~> ListenLoopDone

\* The POSIX accept loop has terminated on the error of the closed
\* listener.
C7_Witness ==
  /\ platform = "posix" /\ listenerClosed
  /\ acceptPc = "done" /\ acceptErr = "closed" /\ sentinelPc = "done"

\* C8: the POSIX receiver unlinks the socket path only while it believes
\* it owns the inode; once the sentinel has reported the path stolen, no
\* step unlinks the path.
C8_UnlinkOnlyIfOwned ==
  [][(platform = "posix" /\ rmCalls' # rmCalls)
       => (inode # NoInode /\ fatalReports = 0)]_vars

\* Shutdown() has returned after the sentinel reported the path stolen,
\* and the other process's file is still at the path.
C8_Witness ==
  /\ fatalReports = 1 /\ shutdownCalls >= 1
  /\ fsInode = ForeignInode /\ rmCalls = 0

\* The tick handler runs and finds the path missing or its inode changed
\* while the receiver is not shut down.
TickFindsStolen ==
  /\ sentinelPc = "locked" /\ sentinelPc' # "locked"
  /\ ~isShutdown
  /\ SentinelSeesStolen(inode, fsInode)

\* C9: a tick that finds the path stolen while the receiver is not shut
\* down reports the fatal condition, and at most one fatal condition is
\* ever reported.
C9_FatalReportedOnce ==
  [][/\ fatalReports' <= 1
     /\ TickFindsStolen => fatalReports' = fatalReports + 1]_vars

\* The sentinel has reported and left while the receiver is not shut down.
C9_Witness ==
  /\ fatalReports = 1 /\ sentinelPc = "done" /\ ~isShutdown

AllWorkersDone == \A w \in Workers : wPc[w] \in {"none", "done"}

LaterShutdownReturns ==
  /\ shutdownCalls >= 1
  /\ shutdownCalls' = shutdownCalls + 1

ThreadsOf(ds) ==
  [n \in {"main"} \cup (DOMAIN ds.threads \ {"main"}) |-> lookupThread(ds, n).th]

\* Every open region of a thread names as its parent the thread (at the
\* bottom of the stack) or the region below it.
ParentsLinked(th) ==
  \A i \in 1..Len(th.regionStack) :
     th.regionStack[i].parentSpanID =
        IF i = 1 THEN th.selfSpanID ELSE th.regionStack[i - 1].selfSpanID

\* C12: at every point between events, each open region's parent span id is
\* its thread's self span id if the region is at the bottom of its thread's
\* stack, and otherwise the span id of the region immediately below it,
\* wherever the version event falls in the stream.
C12_RegionParents ==
  \A w \in Workers : \A n \in DOMAIN ThreadsOf(tr2[w]) : ParentsLinked(ThreadsOf(tr2[w])[n])

NestingMatchesIndex(th) ==
  \A i \in 1..Len(th.regionStack) : th.regionStack[i].nestingLevel = i

RegionStacks(ds) == [n \in DOMAIN ThreadsOf(ds) |-> ThreadsOf(ds)[n].regionStack]

\* A step that reads a region_enter line whose nesting is not len(stack)+1
\* leaves every region stack as it was.
MismatchedEnterIgnored ==
  \A l \in RegionLines :
     ( /\ l.event = "region_enter"
       /\ l.nesting # Len(lookupThread(tr2[1], l.thread).th.regionStack) + 1
       /\ WorkerReadLine(1, {l}) )
     => RegionStacks(tr2'[1]) = RegionStacks(tr2[1])

\* C13: on every thread, main included, the region at stack index i (from 0)
\* has nesting level i+1, and a region_enter whose nesting is not
\* len(stack)+1 pushes nothing.
C13_NestingIsDepth ==
  /\ [](\A w \in Workers : \A n \in DOMAIN ThreadsOf(tr2[w]) :
           NestingMatchesIndex(ThreadsOf(tr2[w])[n]))
  /\ [][MismatchedEnterIgnored]_vars

C13_Witness ==
  /\ HasKey(tr2[1].threads, "th01")
  /\ Len(tr2[1].threads["th01"].regionStack) = MaxNesting
  /\ tr2[1].threads["th01"].regionStack[MaxNesting].nestingLevel = MaxNesting


\* C14: every child and exec record's parent span id equals the main
\* thread's self span id, whichever thread emitted the start event and
\* whether or not the region open at that time has been closed since.
C14_SpawnParentIsMain ==
  \A w \in Workers :
     /\ \A id \in DOMAIN tr2[w].children :
           tr2[w].children[id].parentSpanID = tr2[w].mainSelfSpanID
     /\ \A id \in DOMAIN tr2[w].exec :
           tr2[w].exec[id].parentSpanID = tr2[w].mainSelfSpanID

\* exportTraces() has run prepareDataset() on the dataset of the worker and
\* prepareDataset() returned true.
Finalized(w) ==
  /\ Finished(w) /\ workerExports(haveError[w])
  /\ tr2[w].sawData /\ Sufficient(tr2[w])

EndsAfterStart(span) == span.endTime >= span.startTime

\* C15: after finalization, every span of the dataset (the process, the
\* threads, the regions, the children and the execs) has endTime >=
\* startTime, whatever the events and their timestamps were.
C15_EndsAfterStarts ==
  \A w \in Workers : Finalized(w) =>
     /\ EndsAfterStart(mainThread(tr2[w]))
     /\ \A n \in DOMAIN tr2[w].threads : EndsAfterStart(tr2[w].threads[n])
     /\ \A i \in 1..Len(tr2[w].completedRegions) : EndsAfterStart(tr2[w].completedRegions[i])
     /\ \A id \in DOMAIN tr2[w].children : EndsAfterStart(tr2[w].children[id])
     /\ \A id \in DOMAIN tr2[w].exec : EndsAfterStart(tr2[w].exec[id])


\* The completed region r of the dataset has a parent as claimed: its
\* thread, or another completed region of the same thread that started no
\* later and ended no earlier than r.
ParentEncloses(ds, i) ==
  LET r == ds.completedRegions[i] IN
  \/ r.parentSpanID = lookupThread(ds, r.thread).th.selfSpanID
  \/ \E j \in 1..Len(ds.completedRegions) :
        /\ j # i
        /\ ds.completedRegions[j].thread = r.thread
        /\ ds.completedRegions[j].selfSpanID = r.parentSpanID
        /\ ds.completedRegions[j].startTime <= r.startTime
        /\ ds.completedRegions[j].endTime >= r.endTime

\* C16: after finalization, the parent span id of every completed region
\* is its thread's self span id or the span id of another region of the
\* same thread that started earlier and ended later than the region
\* ("earlier" and "later" read inclusively: regions closed together get the
\* same end time).
C16_ParentEnclosesRegion ==
  \A w \in Workers : Finalized(w) =>
     \A i \in 1..Len(tr2[w].completedRegions) : ParentEncloses(tr2[w], i)


\* The region that a data event of nesting n >= 2 is meant for exists: its
\* thread is known, the thread has at least n-1 open regions, and the region
\* at index n-2 (from 0) has nesting level n-1.
DataTargetExists(ds, l) ==
  LET t == lookupThread(ds, l.thread) IN
  /\ t.ok
  /\ Len(t.th.regionStack) >= l.nesting - 1
  /\ t.th.regionStack[l.nesting - 1].nestingLevel = l.nesting - 1

\* The region stacks after the value of the data event has been stored on
\* the region it is meant for.
DataStored(ds, l) ==
  [RegionStacks(ds) EXCEPT ![l.thread][l.nesting - 1].dataValues =
       MapPut(@, l.key, l.value)]

\* C17: a data or data_json event with nesting n >= 2 is stored on the
\* region at stack index n-2 of its thread only if that region exists and
\* its nesting level matches; in every other case (unknown thread, fewer
\* than n-1 open regions, nesting mismatch) the event is ignored and the
\* worker goes on reading without an error.
C17_DataStoredOrIgnored ==
  [][\A l \in DataLines :
       (l.nesting >= 2 /\ WorkerReadLine(1, {l})) =>
          IF DataTargetExists(tr2[1], l)
          THEN RegionStacks(tr2'[1]) = DataStored(tr2[1], l)
          ELSE /\ RegionStacks(tr2'[1]) = RegionStacks(tr2[1])
               /\ wPc'[1] = "read"
               /\ haveError'[1] = haveError[1]]_vars


\* C18: the threads map never holds an entry named "main": the main thread
\* exists only as the thread embedded in the process.
C18_NoMainInThreads ==
  \A w \in Workers : ~HasKey(tr2[w].threads, "main")


\* The def_param events for a key among the lines a worker has read.
IsDefParam(l, key) == l.kind = "json" /\ l.event = "def_param" /\ l.param = key

DefParamEvents(log, key) == SelectSeq(log, LAMBDA l : IsDefParam(l, key))

\* The event that the claim says wins: of the highest priority, and the
\* latest of those.
DefParamWinner(evs) ==
  LET pri(i) == get_scope_priority(evs[i].scope)
      i == CHOOSE k \in 1..Len(evs) :
             /\ \A j \in 1..Len(evs) : pri(j) <= pri(k)
             /\ \A j \in (k + 1)..Len(evs) : pri(j) < pri(k) IN
  evs[i]

\* C19: after any sequence of def_param events for a key, the stored value
\* is that of the event with the highest scope priority, an absent scope
\* ranking above every named scope, and among the events of that priority
\* the latest one.
C19_DefParamPriority ==
  /\ \A sc \in ParamScopes \ {"nil"} :
        get_scope_priority("nil") > get_scope_priority(sc)
  /\ \A w \in Workers : \A key \in ParamKeys :
        LET evs == DefParamEvents(linesRead[w], key) IN
        IF Len(evs) = 0 THEN ~HasKey(tr2[w].paramSetValues, key)
        ELSE /\ HasKey(tr2[w].paramSetValues, key)
             /\ tr2[w].paramSetValues[key] = DefParamWinner(evs).value

C19_Witness ==
  LET evs == DefParamEvents(linesRead[1], "k1") IN
  /\ Len(evs) = MaxEvents
  /\ get_scope_priority(evs[1].scope) = get_scope_priority(evs[2].scope)
  /\ get_scope_priority(evs[3].scope) < get_scope_priority(evs[2].scope)
  /\ evs[1].value # evs[2].value
  /\ evs[3].value # evs[2].value
  /\ tr2[1].paramSetValues["k1"] = evs[2].value


\* What the claim says of a step that reads the thread_exit line l for a
\* thread of the threads map: the regions open on the thread are appended to
\* the completed regions, innermost first, with the time of the event as
\* their end time; the stack is empty and the thread ends at that time.
ThreadExitCloses(l) ==
  LET th == tr2[1].threads[l.thread]
      n == Len(th.regionStack)
      before == tr2[1].completedRegions
      after == tr2'[1].completedRegions IN
  /\ tr2'[1].threads[l.thread].regionStack = <<>>
  /\ tr2'[1].threads[l.thread].endTime = l.time
  /\ Len(after) = Len(before) + n
  /\ SubSeq(after, 1, Len(before)) = before
  /\ \A k \in 1..n :
        after[Len(before) + k] = [th.regionStack[n + 1 - k] EXCEPT !.endTime = l.time]

\* C20: a thread_exit for a known thread moves every region still open on
\* that thread to the completed list with the event time as end time,
\* innermost first, leaves the thread's region stack empty, and sets the
\* thread's end time to the event time.
C20_ThreadExitCloses ==
  [][\A l \in ThreadExitLines :
       (HasKey(tr2[1].threads, l.thread) /\ WorkerReadLine(1, {l})) => ThreadExitCloses(l)]_vars

C20_Witness ==
  /\ wPc[1] = "read"
  /\ HasKey(tr2[1].threads, "th01")
  /\ tr2[1].threads["th01"].endTime = LateTime
  /\ tr2[1].threads["th01"].regionStack = <<>>
  /\ Len(tr2[1].completedRegions) = 2
  /\ \A i \in 1..2 :
        /\ tr2[1].completedRegions[i].thread = "th01"
        /\ tr2[1].completedRegions[i].endTime = LateTime
        /\ tr2[1].completedRegions[i].nestingLevel = 3 - i

\* The region_leave line l finds its thread with no open region, or with a
\* region on top of the stack whose nesting level is not that of l.
LeaveMismatch(ds, l) ==
  LET t == lookupThread(ds, l.thread) IN
  /\ t.ok
  /\ \/ Len(t.th.regionStack) = 0
     \/ t.th.regionStack[Len(t.th.regionStack)].nestingLevel # l.nesting

\* C21: a region_leave on a thread whose region stack is empty, or whose
\* nesting differs from the nesting level of the region on top of the stack,
\* leaves every region stack, the completed list and the summary accumulator
\* unchanged; no error is raised and the worker goes on reading.
C21_LeaveRejected ==
  [][\A l \in LeaveLines :
       (LeaveMismatch(tr2[1], l) /\ WorkerReadLineLogged(1, {l}))
       => /\ RegionStacks(tr2'[1]) = RegionStacks(tr2[1])
          /\ tr2'[1].completedRegions = tr2[1].completedRegions
          /\ tr2'[1].summary = tr2[1].summary
          /\ wPc'[1] = "read"
          /\ haveError'[1] = haveError[1]
          /\ errorLogs'[1] = errorLogs[1]]_vars

\* A region was entered on main, a leave of another nesting level was
\* rejected, and the leave that followed it closed the region.
C21_Witness ==
  /\ wPc[1] = "read"
  /\ Len(linesRead[1]) = 3
  /\ linesRead[1][1].event = "region_enter" /\ linesRead[1][1].thread = "main"
  /\ linesRead[1][1].nesting = 1
  /\ linesRead[1][2].event = "region_leave" /\ linesRead[1][2].thread = "main"
  /\ linesRead[1][2].nesting = 2
  /\ linesRead[1][3].event = "region_leave" /\ linesRead[1][3].thread = "main"
  /\ linesRead[1][3].nesting = 1
  /\ Len(tr2[1].completedRegions) = 1
  /\ tr2[1].mainRegionStack = <<>>
  /\ tr2[1].summary.regionCounts["refresh_count"] = 1

\* The completed region at index j was the region directly below the
\* completed region at index i when that one was entered.
DirectlyEncloses(ds, j, i) ==
  ds.completedRegions[i].parentSpanID = ds.completedRegions[j].selfSpanID

\* The regions that enclose the completed region at index i, among the
\* completed regions: the chain of parents, at most depth regions long.
RECURSIVE EnclosingOf(_, _, _)
EnclosingOf(ds, i, depth) ==
  IF depth = 0 THEN {}
  ELSE LET ps == {j \in 1..Len(ds.completedRegions) : DirectlyEncloses(ds, j, i)} IN
       ps \cup UNION {EnclosingOf(ds, j, depth - 1) : j \in ps}

IsPrefix(s, t) == Len(s) <= Len(t) /\ SubSeq(t, 1, Len(s)) = s

IsErrorEvent(l) == l.kind = "json" /\ l.event = "error"

ErrorEvents(log) == SelectSeq(log, IsErrorEvent)

\* C23: after any number of error events the recorded (message, format)
\* pair is that of the first error event of the stream.
C23_FirstErrorKept ==
  \A w \in Workers :
     LET evs == ErrorEvents(linesRead[w]) IN
     Len(evs) > 0 =>
        /\ tr2[w].exeErrorMsg = evs[1].msg
        /\ tr2[w].exeErrorFmt = evs[1].fmt

\* The line l starts a child whose id, or a thread whose name, has an entry.
DuplicateStart(ds, l) ==
  \/ l.event = "child_start" /\ HasKey(ds.children, l.child_id)
  \/ l.event = "thread_start" /\ HasKey(ds.threads, l.thread)

\* C24: a child_start for a child-id that has a record, and a thread_start
\* for a thread name that has a record, leave the dataset as it was: the
\* record keeps its span id, start time and contents and no record is added.
C24_DuplicateStartIgnored ==
  [][\A l \in StartSpecLines :
       (DuplicateStart(tr2[1], l) /\ WorkerReadLineLogged(1, {l}))
       => /\ tr2'[1] = tr2[1]
          /\ wPc'[1] = "read"
          /\ haveError'[1] = haveError[1]]_vars

\* A child started at one time, and a second child_start with the same id
\* and a later time was read.
C24_Witness ==
  /\ wPc[1] = "read"
  /\ Len(linesRead[1]) = 2
  /\ \A i \in 1..2 : linesRead[1][i].event = "child_start" /\ linesRead[1][i].child_id = 0
  /\ linesRead[1][1].time = EventTime
  /\ linesRead[1][2].time = LateTime
  /\ DOMAIN tr2[1].children = {0}
  /\ tr2[1].children[0].startTime = EventTime
  /\ tr2[1].children[0].selfSpanID = FirstRandomSpanID
  /\ tr2[1].nrSpanIDs = 1

\* The version event of the dataset has been applied.
VersionSeen(ds) == ds.mainStartTime # 0

\* C25: once a dataset has seen an event its trace id does not change, and
\* once it has a SID its trace id is the first 16 bytes of SHA-256 of the
\* first "/"-separated component of the SID.
C25_TraceIdConstant ==
  [][\A w \in Workers :
       tr2[w].sawData =>
          /\ tr2'[w].otelTraceID = tr2[w].otelTraceID
          /\ VersionSeen(tr2'[w]) =>
                tr2'[w].otelTraceID = Sha256(Split(tr2'[w].trace2SID)[1]).bytes0to16]_vars

\* The SID of the parent of the process whose SID is rawSid: what comes
\* before the last separator.
ParentSid(rawSid) ==
  LET seps == {i \in 1..Len(rawSid) : rawSid[i] = "/"} IN
  SubSeq(rawSid, 1, (CHOOSE k \in seps : \A i \in seps : i <= k) - 1)

\* C26: the ids of a process whose SID is P/x link up with the ids computed
\* for the SID P: the trace id is the same and the parent span id of P/x is
\* the self span id of P; a SID of one component gives the all-zero parent
\* span id.
C26_LineageLinks ==
  \A w \in Workers :
     VersionSeen(tr2[w]) =>
        LET sid == tr2[w].trace2SID IN
        IF \A i \in 1..Len(sid) : sid[i] # "/"
        THEN tr2[w].mainParentSpanID = ZeroSpanID
        ELSE LET parent == extractIDsfromSID(ParentSid(sid)) IN
             /\ tr2[w].otelTraceID = parent.tid
             /\ tr2[w].mainParentSpanID = parent.spid
             /\ tr2[w].mainParentSpanID # ZeroSpanID

\* The version event of a grandchild a/b/a has been applied: its parent span
\* id is the one that comes from b, its trace id the one that comes from a.
C26_Witness ==
  /\ wPc[1] = "read"
  /\ VersionSeen(tr2[1])
  /\ tr2[1].trace2SID = <<"a", "/", "b", "/", "a">>
  /\ tr2[1].otelTraceID = Sha256(<<"a">>).bytes0to16
  /\ tr2[1].mainParentSpanID = Sha256(<<"b">>).bytes16to24
  /\ tr2[1].mainSelfSpanID = Sha256(<<"a">>).bytes16to24

\* The accumulator to which the first n completed regions have been applied
\* once each, in the order of the completed list.
RECURSIVE SummaryOfCompleted(_, _)
SummaryOfCompleted(ds, n) ==
  IF n = 0 THEN processSummary
  ELSE summaryRegionFrom(SummaryOfCompleted(ds, n - 1),
                         TheSummarySettings.RegionTimers, 1, ds.completedRegions[n])

\* C27: every region of the completed list, whether closed by region_leave,
\* by thread_exit or by finalization, has been applied to the summary
\* accumulator exactly once.
C27_CompletedRegionsSummarized ==
  \A w \in Workers :
     tr2[w].summary = SummaryOfCompleted(tr2[w], Len(tr2[w].completedRegions))

\* The value that the accumulator holds for a field, zero if it has none.
Accumulated(csa, f) ==
  IF HasKey(csa.messageCounts, f) THEN csa.messageCounts[f]
  ELSE IF HasKey(csa.regionCounts, f) THEN csa.regionCounts[f]
  ELSE IF HasKey(csa.regionTimes, f) THEN csa.regionTimes[f]
  ELSE 0

SummaryFields(csa) ==
  DOMAIN csa.messageCounts \cup DOMAIN csa.regionCounts \cup DOMAIN csa.regionTimes

\* C28: the emitted summary map has a field if and only if the value
\* accumulated for the field is not zero.
C28_EmittedIffNonZero ==
  \A w \in Workers : \A f \in SummaryFields(tr2[w].summary) :
     HasKey(toMap(tr2[w].summary), f) <=> Accumulated(tr2[w].summary, f) # 0

\* The value of a parameter whose key name is configured, "" otherwise.
ParamOf(keyName, params) ==
  IF keyName # "" /\ HasKey(params, keyName) THEN params[keyName] ELSE ""

\* The name that the precedence of C29 gives.
InitialName(fs, params) ==
  LET byKey == ParamOf(fs.RulesetKey, params)
      nickname == ParamOf(fs.NicknameKey, params)
      byNickname == IF nickname # "" /\ HasKey(fs.NicknameMap, nickname)
                    THEN fs.NicknameMap[nickname] ELSE "" IN
  IF byKey # "" THEN byKey
  ELSE IF byNickname # "" THEN byNickname
  ELSE IF fs.DefaultsRulesetName # "" THEN fs.DefaultsRulesetName
  ELSE FSDetailLevelDefaultName

\* C29: the initial name is the value of the ruleset_key parameter if that
\* is not empty; else the mapping of the nickname, when nickname_key is
\* configured, the parameter is not empty and the nicknames table maps it to
\* a non-empty value; else defaults.ruleset if not empty; else the builtin
\* dl:summary.  A name that is a detail level is the detail level computed.
C29_NamePrecedence ==
  \A w \in Workers :
     LET r == lookupRulesetName(filterSettings, tr2[w].paramSetValues)
         want == InitialName(filterSettings, tr2[w].paramSetValues) IN
     /\ (IF r.ok THEN r.name ELSE FSDetailLevelDefaultName) = want
     /\ want \in FSDetailLevelNames =>
           computeDetailLevel(filterSettings, tr2[w].paramSetValues,
                              tr2[w].qualifiedNames) = want

\* A ruleset_key value and a mapped nickname are both present and name
\* different things: the detail level of the ruleset_key value was used.
C29_Witness ==
  /\ Finalized(1)
  /\ ParamOf(filterSettings.RulesetKey, tr2[1].paramSetValues) = FSDetailLevelProcessName
  /\ ParamOf(filterSettings.NicknameKey, tr2[1].paramSetValues) = "monorepo"
  /\ HasKey(filterSettings.NicknameMap, "monorepo")
  /\ filterSettings.NicknameMap["monorepo"] = "rs:status"
  /\ filterSettings.DefaultsRulesetName = FSDetailLevelVerboseName
  /\ consumed[1] = 1

\* The initial name is the name of a ruleset of the filter settings.
RulesetFound(fs, params) ==
  LET r == lookupRulesetName(fs, params) IN
  r.ok /\ r.name \notin FSDetailLevelNames /\ HasKey(fs.rulesetDefs, r.name)

\* The names that are looked up, in the order of C30.
LookupOrder(qn) == <<qn.exeVerbMode, qn.exeVerb, qn.exe>>

\* The level that C30 gives: that of the first name of the order that the
\* command table has, the ruleset's default if it has none.
FirstHit(rsdef, qn) ==
  LET hits == {i \in 1..3 : HasKey(rsdef.CmdMap, LookupOrder(qn)[i])} IN
  IF hits = {} THEN rsdef.DefaultsDetailLevelName
  ELSE rsdef.CmdMap[LookupOrder(qn)[CHOOSE i \in hits : \A j \in hits : i <= j]]

\* C30: within a ruleset that was found the detail level is that of the
\* first hit among exe:verb#mode, exe:verb and exe, in that order, and the
\* ruleset's default detail level if none of the three is present; a
\* finalized dataset is handed to the consumer unless that level is DROP.
C30_CommandPrecedence ==
  \A w \in Workers :
     RulesetFound(filterSettings, tr2[w].paramSetValues) =>
        LET rsdef == filterSettings.rulesetDefs[
                       lookupRulesetName(filterSettings, tr2[w].paramSetValues).name]
            want == FirstHit(rsdef, tr2[w].qualifiedNames) IN
        /\ computeDetailLevel(filterSettings, tr2[w].paramSetValues,
                              tr2[w].qualifiedNames) = want
        /\ Finalized(w) => (consumed[w] = 0 <=> want = FSDetailLevelDropName)

\* The command git status in mode pack was finalized under a ruleset whose
\* table has all three names: the level of git:status#pack, DROP, was used.
C30_Witness ==
  /\ Finalized(1)
  /\ RulesetFound(filterSettings, tr2[1].paramSetValues)
  /\ tr2[1].qualifiedNames =
       [exe |-> "git", exeVerb |-> "git:status", exeVerbMode |-> "git:status#pack"]
  /\ DOMAIN filterSettings.rulesetDefs["rs:status"].CmdMap =
       {"git:status#pack", "git:status", "git"}
  /\ consumed[1] = 0

\* The initial name is neither a detail level nor a ruleset of the filter
\* settings.
InvalidName(fs, params) ==
  LET r == lookupRulesetName(fs, params) IN
  r.ok /\ r.name \notin FSDetailLevelNames /\ ~HasKey(fs.rulesetDefs, r.name)

BareLevel(fs, params) ==
  LET r == lookupRulesetName(fs, params) IN r.ok /\ r.name \in FSDetailLevelNames

\* The filter settings with the command table of the ruleset rs:status
\* replaced.
WithCmdMap(fs, cm) ==
  [fs EXCEPT !.rulesetDefs = [@ EXCEPT !["rs:status"] = [@ EXCEPT !.CmdMap = cm]]]

\* The qualified names a command can have.
QualifiedNameSet ==
  { [exe |-> e, exeVerb |-> v, exeVerbMode |-> vm] :
      e \in {"", "git"}, v \in {"", "git", "git:status"},
      vm \in {"", "git", "git:status", "git:status#pack"} }

\* C32: when the resolved name is itself a detail-level name, that level is
\* the result for every command: it does not depend on the qualified names
\* of the command nor on any command table, and the worker hands the
\* finalized dataset over unless the level is DROP.
C32_BareLevelForEveryCommand ==
  \A w \in Workers :
     BareLevel(filterSettings, tr2[w].paramSetValues) =>
        LET name == lookupRulesetName(filterSettings, tr2[w].paramSetValues).name IN
        /\ computeDetailLevel(filterSettings, tr2[w].paramSetValues,
                              tr2[w].qualifiedNames) = name
        /\ \A cm \in CmdMaps, qn \in QualifiedNameSet :
              computeDetailLevel(WithCmdMap(filterSettings, cm),
                                 tr2[w].paramSetValues, qn) = name
        /\ Finalized(w) =>
              consumed[w] = (IF name = FSDetailLevelDropName THEN 0 ELSE 1)

\* The ruleset key parameter is dl:process, the default ruleset is rs:status
\* whose table has an entry for each name of the command git status in mode
\* pack, and the dataset was handed over.
C32_Witness ==
  /\ Finalized(1)
  /\ ParamOf(filterSettings.RulesetKey, tr2[1].paramSetValues) = FSDetailLevelProcessName
  /\ BareLevel(filterSettings, tr2[1].paramSetValues)
  /\ filterSettings.DefaultsRulesetName = "rs:status"
  /\ tr2[1].qualifiedNames =
       [exe |-> "git", exeVerb |-> "git:status", exeVerbMode |-> "git:status#pack"]
  /\ DOMAIN filterSettings.rulesetDefs["rs:status"].CmdMap =
       {"git:status#pack", "git:status", "git"}
  /\ consumed[1] = 1

\* A span id with the ids that NewSpanID() drew replaced by the zero id.
EraseId(id) == IF id >= FirstRandomSpanID THEN ZeroSpanID ELSE id

EraseSpan(r) == [r EXCEPT !.selfSpanID = EraseId(@), !.parentSpanID = EraseId(@)]

EraseSpans(seq) == [i \in DOMAIN seq |-> EraseSpan(seq[i])]

\* The dataset without its random source and the ids drawn from it.
EraseIds(ds) ==
  [ds EXCEPT !.rngSeed = 0,
             !.threads = [n \in DOMAIN ds.threads |->
                            [EraseSpan(ds.threads[n]) EXCEPT !.regionStack = EraseSpans(@)]],
             !.children = [id \in DOMAIN ds.children |-> EraseSpan(ds.children[id])],
             !.exec = [id \in DOMAIN ds.exec |-> EraseSpan(ds.exec[id])],
             !.mainRegionStack = EraseSpans(@),
             !.completedRegions = EraseSpans(@)]

\* How often each element occurs in a sequence.
Occurrences(seq) ==
  [r \in {seq[i] : i \in DOMAIN seq} |-> Cardinality({i \in DOMAIN seq : seq[i] = r})]

\* The finalized dataset fin of the dataset open, without the random ids,
\* without the end times that finalization gave to what was still open, and
\* without the order of the regions that finalization closed.
WithoutFinalizationStamps(fin, open) ==
  LET e == EraseIds(fin)
      k == Len(open.completedRegions)
      closed == SubSeq(e.completedRegions, k + 1, Len(e.completedRegions)) IN
  [e EXCEPT !.mainEndTime = IF isIncomplete(open.mainEndTime) THEN 0 ELSE @,
            !.threads = [n \in DOMAIN e.threads |->
                           IF isIncomplete(open.threads[n].endTime)
                           THEN [e.threads[n] EXCEPT !.endTime = 0] ELSE e.threads[n]],
            !.children = [id \in DOMAIN e.children |->
                            IF isIncomplete(open.children[id].endTime)
                            THEN [e.children[id] EXCEPT !.endTime = 0] ELSE e.children[id]],
            !.completedRegions =
                [ kept |-> SubSeq(e.completedRegions, 1, k),
                  closed |-> Occurrences([i \in DOMAIN closed |->
                                            [closed[i] EXCEPT !.endTime = 0]]) ]]

InMakeDatasetId == {c \in Callers : mkPc[c] \in {"read", "increment", "unlock"}}

\* C34: the dataset ids that concurrent callers of makeDatasetId() obtain
\* are pairwise distinct: at most one caller is between Lock and Unlock,
\* the counter still has the value a caller read when that caller
\* increments it, and the counter has counted every increment.
C34_DatasetIdsDistinct ==
  /\ \A c, d \in Callers :
        (c # d /\ HasKey(mkDsid, c) /\ HasKey(mkDsid, d)) => mkDsid[c] # mkDsid[d]
  /\ Cardinality(InMakeDatasetId) <= 1
  /\ \A c \in Callers : mkPc[c] = "increment" => mkDsid[c] = datasetId
  /\ datasetId = Cardinality({c \in Callers : mkPc[c] \in {"unlock", "done"}})

\* Every caller has returned from makeDatasetId(), the second caller before
\* the first.
C34_Witness ==
  /\ \A c \in Callers : mkPc[c] = "done"
  /\ {mkDsid[c] : c \in Callers} = 0..(MaxCallers - 1)
  /\ mkDsid[2] < mkDsid[1]

\* C35: after finalization of a sufficient dataset no region is left on a
\* region stack, of the main thread or of any thread of the threads map,
\* also when the region was entered on a thread after its thread_exit.
C35_NoRegionLeftOpen ==
  \A w \in Workers :
     Finalized(w) =>
        /\ Len(tr2[w].mainRegionStack) = 0
        /\ \A n \in DOMAIN tr2[w].threads : Len(tr2[w].threads[n].regionStack) = 0

\* C36: after finalization of a sufficient dataset nothing is left open:
\* the main thread, every thread, every child and every exec has an end
\* time that is not zero.
C36_NothingLeftOpen ==
  \A w \in Workers :
     Finalized(w) =>
        /\ ~isIncomplete(tr2[w].mainEndTime)
        /\ \A n \in DOMAIN tr2[w].threads : ~isIncomplete(tr2[w].threads[n].endTime)
        /\ \A id \in DOMAIN tr2[w].children : ~isIncomplete(tr2[w].children[id].endTime)
        /\ \A id \in DOMAIN tr2[w].exec : ~isIncomplete(tr2[w].exec[id].endTime)

\* C37: once a call of Shutdown() has returned, no worker hands a dataset
\* to the consumer.
C37_NoExportAfterShutdown ==
  [][shutdownCalls >= 1 => consumed' = consumed]_vars

C39_ForeignFileKept ==
  platform = "posix" => ~rmForeign

\* C40: every pending call of Shutdown() returns: whoever holds the mutex
\* is at the statements it runs with the mutex held, none of which waits,
\* the mutex is released again, and all the calls of the host return.
C40_ShutdownReturns ==
  /\ [](/\ mutex = "shutdown" <=> shutdownPc = "locked"
        /\ mutex = "accept" <=> acceptPc = "locked"
        /\ mutex = "sentinel" <=> sentinelPc = "locked")
  /\ (mutex # "free") ~> (mutex = "free")
  /\ (platform = "posix") ~> (shutdownCalls = MaxShutdownCalls /\ shutdownPc = "idle")

\* All calls of Shutdown() have returned after the tick handler reported
\* the stolen path and the accept loop handled the error of the closed
\* listener.
C40_Witness ==
  /\ platform = "posix" /\ shutdownCalls = MaxShutdownCalls /\ shutdownPc = "idle"
  /\ fatalReports = 1 /\ acceptPc = "done" /\ sentinelPc = "done"

=============================================================================
